---- MODULE Spec2Model ----
(***************************************************************************)
(* Orça Interiores: the 3D parser (parser_3d.py), the price tables         *)
(* (precos_leo_madeiras.py), the budget composer (orcamento.py) and the    *)
(* analysis page of the application (app.py).                              *)
(*                                                                         *)
(* Numbers.  The Python code computes in binary floating point and rounds  *)
(* with round(x, n).  The model computes in exact decimal fixed point:     *)
(*   raw extent of a bounding box ...... integer, unit 1e-4 raw unit       *)
(*   extent in metres before rounding .. integer, unit 1e-4 m              *)
(*   largura_m, altura_m, profundidade_m integer, unit 1e-3 m  (round 3)   *)
(*   area_m2 ........................... integer, unit 1e-3 m2 (round 3)   *)
(*   volume_m3 ......................... integer, unit 1e-4 m3 (round 4)   *)
(*   confianca ......................... integer, unit 1e-3                *)
(*   money, rounded .................... integer, centavos     (round 2)   *)
(*   money, not rounded ................ signed decimal (see Dec)           *)
(* round() is round-half-to-even on the exact value.  A float differs from *)
(* the decimal it stands for by about 1e-16 relative, so the two roundings *)
(* agree except on exact decimal ties; the input sets hold no extent that  *)
(* is an exact tie of its own rounding.                                    *)
(***************************************************************************)
EXTENDS Integers, Sequences, FiniteSets, TLC

VARIABLES chamada, fase, ret, mesh_data, loader_chamado,
          temporarios, pedidos, sessao, usuario, tabelas, execucoes, sessoes

\* chamada: the call and its arguments; fase: before or after it; ret: what
\* it returned; mesh_data: what carregar_mesh gave analisar_arquivo;
\* loader_chamado: carregar_mesh ran; temporarios: the temporary files on
\* disk; pedidos: the analyses app.py handed to the composer, in order;
\* sessao: st.session_state; usuario: the stored record of the user logged
\* in (plano, projetos_mes_atual); tabelas: the dicts of the module
\* precos_leo_madeiras, which every budget reads; execucoes: the budget
\* computations under way, each with its local variables; sessoes: the
\* browser sessions of the user, each with its place in the page.
vars == <<chamada, fase, ret, mesh_data, loader_chamado,
          temporarios, pedidos, sessao, usuario, tabelas, execucoes, sessoes>>

\* Python's None where an object (a dict, a mesh) is expected, and where a
\* bounds array is expected: TLC compares only values of one kind.
None == [classe |-> "NoneType"]

SemBounds == << >>

(***************************************************************************)
(* Arithmetic                                                              *)
(***************************************************************************)
Abs(n) == IF n < 0 THEN -n ELSE n

Max2(a, b) == IF a >= b THEN a ELSE b

Min2(a, b) == IF a <= b THEN a ELSE b

\* round(n/d) to the nearest integer, ties to even (Python's round); d > 0.
\* \div is floor division and % the non-negative remainder, so this is
\* right for a negative n too.
RoundDiv(n, d) ==
    LET q == n \div d
        r == n % d
    IN  IF 2 * r > d \/ (2 * r = d /\ q % 2 = 1) THEN q + 1 ELSE q

\* Products of extents, and of an area and a price, do not fit the
\* 32-bit integers of TLC: a natural number is then the sequence of its
\* base-10^4 digits, lowest first.
Digitos(n) == <<n % 10000, (n \div 10000) % 10000, n \div 100000000>>

\* The digits of the number whose i-th digit place holds bruto[i] (any
\* natural) plus the carry.
RECURSIVE Propagar(_, _)
Propagar(bruto, vai) ==
    IF bruto = << >>
    THEN IF vai = 0 THEN << >>
         ELSE <<vai % 10000>> \o Propagar(<< >>, vai \div 10000)
    ELSE <<(Head(bruto) + vai) % 10000>>
         \o Propagar(Tail(bruto), (Head(bruto) + vai) \div 10000)

RECURSIVE SomaTermos(_, _, _, _)
SomaTermos(x, y, k, i) ==
    IF i > Len(x) THEN 0
    ELSE (IF k + 1 - i \in 1..Len(y) THEN x[i] * y[k + 1 - i] ELSE 0)
         + SomaTermos(x, y, k, i + 1)

\* x * y on digit sequences.
BigMul(x, y) ==
    Propagar([k \in 1..(Len(x) + Len(y) - 1) |-> SomaTermos(x, y, k, 1)], 0)

RECURSIVE BigInt(_)
BigInt(x) == IF x = << >> THEN 0 ELSE Head(x) + 10000 * BigInt(Tail(x))

\* round(x / 10^k) for a digit sequence x and k >= 1, ties to even.
BigRound(x, k) ==
    LET r == k % 4
        n == (k + 3) \div 4
        xs == IF r = 0 THEN x
              ELSE Propagar([i \in 1..Len(x) |-> x[i] * (10 ^ (4 - r))], 0)
        d(i) == IF i <= Len(xs) THEN xs[i] ELSE 0
        q == IF Len(xs) > n THEN BigInt(SubSeq(xs, n + 1, Len(xs))) ELSE 0
        resto == \E i \in 1..(n - 1) : d(i) # 0
    IN  IF d(n) > 5000 \/ (d(n) = 5000 /\ (resto \/ q % 2 = 1))
        THEN q + 1 ELSE q

\* round(a * b / 10^k), ties to even, for integers a, b of either sign.
RoundMul(a, b, k) ==
    LET m == BigRound(BigMul(Digitos(Abs(a)), Digitos(Abs(b))), k)
    IN  IF (a < 0) = (b < 0) THEN m ELSE -m

\* round(a * b * c / 10^k), ties to even, for a, b, c >= 0.
RoundMul3(a, b, c, k) ==
    BigRound(BigMul(BigMul(Digitos(a), Digitos(b)), Digitos(c)), k)

\* Money that is not yet rounded is a signed decimal: the sign and the
\* digit sequence of the magnitude, without leading zero digits.  The unit
\* (1e-5, 1e-7 or 1e-9 real) is said where the value is built.
RECURSIVE Norm(_)
Norm(x) ==
    IF x # << >> /\ x[Len(x)] = 0 THEN Norm(SubSeq(x, 1, Len(x) - 1)) ELSE x

Dig(x, i) == IF i <= Len(x) THEN x[i] ELSE 0

MagSoma(x, y) ==
    Propagar([i \in 1..Max2(Len(x), Len(y)) |-> Dig(x, i) + Dig(y, i)], 0)

MagMenor(x, y) ==
    \/ Len(x) < Len(y)
    \/ /\ Len(x) = Len(y)
       /\ \E i \in 1..Len(x) :
              x[i] < y[i] /\ \A j \in (i + 1)..Len(x) : x[j] = y[j]

\* x - y for x >= y
MagDif(x, y) == Norm(Propagar([i \in 1..Len(x) |-> x[i] - Dig(y, i)], 0))

Sinal(neg, mag) == [neg |-> neg /\ mag # << >>, mag |-> mag]

Dec(n) == Sinal(n < 0, Norm(Digitos(Abs(n))))

DecSoma(a, b) ==
    IF a.neg = b.neg THEN Sinal(a.neg, MagSoma(a.mag, b.mag))
    ELSE IF MagMenor(a.mag, b.mag) THEN Sinal(b.neg, MagDif(b.mag, a.mag))
    ELSE Sinal(a.neg, MagDif(a.mag, b.mag))

DecMul(a, b) == Sinal(a.neg # b.neg, Norm(BigMul(a.mag, b.mag)))

\* round(a / 10^k) as an integer, ties to even
DecRound(a, k) ==
    IF a.neg THEN -BigRound(a.mag, k) ELSE BigRound(a.mag, k)

\* Long division of a digit sequence by d > 0, highest digit first.
RECURSIVE DivLonga(_, _, _)
DivLonga(x, d, resto) ==
    IF x = << >> THEN [q |-> << >>, r |-> resto]
    ELSE LET cur == resto * 10000 + x[Len(x)]
             abaixo == DivLonga(SubSeq(x, 1, Len(x) - 1), d, cur % d)
         IN  [q |-> abaixo.q \o <<cur \div d>>, r |-> abaixo.r]

\* round(a / (d * 10^4)) as an integer, ties to even; d > 0.
DecDivRound4(a, d) ==
    LET dl == DivLonga(a.mag, d, 0)
        q0 == Dig(dl.q, 1)
        q1 == IF Len(dl.q) > 1 THEN BigInt(SubSeq(dl.q, 2, Len(dl.q))) ELSE 0
        m == IF q0 > 5000 \/ (q0 = 5000 /\ (dl.r > 0 \/ q1 % 2 = 1))
             THEN q1 + 1 ELSE q1
    IN  IF a.neg THEN -m ELSE m

(***************************************************************************)
(* Text: a str is a sequence of one-character strings                      *)
(***************************************************************************)
Maiusculas ==
    <<"A","B","C","D","E","F","G","H","I","J","K","L","M","N","O","P","Q",
      "R","S","T","U","V","W","X","Y","Z","Á","Ó">>

Minusculas ==
    <<"a","b","c","d","e","f","g","h","i","j","k","l","m","n","o","p","q",
      "r","s","t","u","v","w","x","y","z","á","ó">>

\* str.lower()
LowerChar(c) ==
    IF \E i \in 1..Len(Maiusculas) : Maiusculas[i] = c
    THEN Minusculas[CHOOSE i \in 1..Len(Maiusculas) : Maiusculas[i] = c]
    ELSE c

Lower(s) == [i \in 1..Len(s) |-> LowerChar(s[i])]

\* str(n) for n >= 0
RECURSIVE Str(_)
Str(n) ==
    LET d == <<"0","1","2","3","4","5","6","7","8","9">>[(n % 10) + 1]
    IN  IF n < 10 THEN <<d>> ELSE Str(n \div 10) \o <<d>>

\* s.rfind(c), 1-based: 0 when c is not in s
RFind(s, c) ==
    LET em == { i \in 1..Len(s) : s[i] = c }
    IN  IF em = {} THEN 0 ELSE CHOOSE i \in em : \A j \in em : j <= i

\* os.path.splitext(p)[1] (posixpath): from the last dot of the last path
\* component, unless only dots precede it there.
SplitextExt(p) ==
    LET sepIndex == RFind(p, "/")
        dotIndex == RFind(p, ".")
    IN  IF dotIndex > sepIndex
           /\ \E i \in (sepIndex + 1)..(dotIndex - 1) : p[i] # "."
        THEN SubSeq(p, dotIndex, Len(p))
        ELSE << >>

\* sub in s
Contains(sub, s) ==
    \E i \in 0..(Len(s) - Len(sub)) : SubSeq(s, i + 1, i + Len(sub)) = sub

(***************************************************************************)
(* parser_3d.py                                                            *)
(***************************************************************************)
formatos_suportados ==
    { <<".","o","b","j">>, <<".","d","a","e">>, <<".","s","t","l">>,
      <<".","p","l","y">> }

\* The keyword table, in the order the dict literal gives its keys.
tipos_componentes ==
    << [tipo |-> "armario",
        palavras |-> << <<"a","r","m","á","r","i","o">>,
                        <<"c","a","b","i","n","e","t">>,
                        <<"w","a","r","d","r","o","b","e">>,
                        <<"c","l","o","s","e","t">> >>],
       [tipo |-> "gaveta",
        palavras |-> << <<"g","a","v","e","t","a">>,
                        <<"d","r","a","w","e","r">>,
                        <<"c","a","j","ó","n">> >>],
       [tipo |-> "porta",
        palavras |-> << <<"p","o","r","t","a">>,
                        <<"d","o","o","r">>,
                        <<"p","u","e","r","t","a">> >>],
       [tipo |-> "prateleira",
        palavras |-> << <<"p","r","a","t","e","l","e","i","r","a">>,
                        <<"s","h","e","l","f">>,
                        <<"e","s","t","a","n","t","e">> >>],
       [tipo |-> "bancada",
        palavras |-> << <<"b","a","n","c","a","d","a">>,
                        <<"c","o","u","n","t","e","r","t","o","p">>,
                        <<"m","e","s","a">> >>],
       [tipo |-> "painel",
        palavras |-> << <<"p","a","i","n","e","l">>,
                        <<"p","a","n","e","l">>,
                        <<"l","a","t","e","r","a","l">> >>] >>

mapear_tipo(tipo_interno) ==
    CASE tipo_interno = "armario" -> "Armário"
      [] tipo_interno = "gaveta" -> "Gaveta"
      [] tipo_interno = "porta" -> "Porta"
      [] tipo_interno = "prateleira" -> "Prateleira"
      [] tipo_interno = "bancada" -> "Bancada"
      [] tipo_interno = "painel" -> "Painel"
      [] OTHER -> "Componente"

\* The table entries one of whose keywords the lower-cased name contains.
EntradasComPalavra(nome_lower) ==
    { i \in 1..Len(tipos_componentes) :
        \E k \in 1..Len(tipos_componentes[i].palavras) :
            Contains(tipos_componentes[i].palavras[k], nome_lower) }

\* The dimension rules with the shelf tested before the countertop.
ClassificarPrateleiraPrimeiro(largura, altura, profundidade) ==
    LET confianca_base == 700
    IN  IF altura < 500 /\ largura > 3000
        THEN [tipo |-> "Prateleira", confianca |-> confianca_base]
        ELSE IF altura < 1500 /\ largura > 8000 /\ profundidade > 4000
        THEN [tipo |-> "Bancada", confianca |-> confianca_base + 100]
        ELSE IF altura > 4000 /\ largura > 3000 /\ profundidade < 1000
        THEN [tipo |-> "Porta", confianca |-> confianca_base]
        ELSE IF altura < 2500 /\ largura > 3000 /\ profundidade > 3000
        THEN [tipo |-> "Gaveta", confianca |-> confianca_base]
        ELSE IF altura > 5000 /\ largura > 4000 /\ profundidade > 3000
        THEN IF altura > 15000
             THEN [tipo |-> "Armário Alto", confianca |-> confianca_base + 100]
             ELSE [tipo |-> "Armário Baixo", confianca |-> confianca_base]
        ELSE IF altura > 5000 /\ largura < 2000
        THEN [tipo |-> "Painel Lateral", confianca |-> confianca_base - 100]
        ELSE [tipo |-> "Componente", confianca |-> confianca_base - 200]

\* The dimension rules of classificar_componente, in the order of the
\* if/elif chain; extents in 1e-4 m, confianca_base = 0.7.
ClassificarPorDimensoes(largura, altura, profundidade) ==
    LET confianca_base == 700
    IN  IF altura < 1500 /\ largura > 8000 /\ profundidade > 4000
        THEN [tipo |-> "Bancada", confianca |-> confianca_base + 100]
        ELSE IF altura < 500 /\ largura > 3000
        THEN [tipo |-> "Prateleira", confianca |-> confianca_base]
        ELSE IF altura > 4000 /\ largura > 3000 /\ profundidade < 1000
        THEN [tipo |-> "Porta", confianca |-> confianca_base]
        ELSE IF altura < 2500 /\ largura > 3000 /\ profundidade > 3000
        THEN [tipo |-> "Gaveta", confianca |-> confianca_base]
        ELSE IF altura > 5000 /\ largura > 4000 /\ profundidade > 3000
        THEN IF altura > 15000
             THEN [tipo |-> "Armário Alto", confianca |-> confianca_base + 100]
             ELSE [tipo |-> "Armário Baixo", confianca |-> confianca_base]
        ELSE IF altura > 5000 /\ largura < 2000
        THEN [tipo |-> "Painel Lateral", confianca |-> confianca_base - 100]
        ELSE [tipo |-> "Componente", confianca |-> confianca_base - 200]

\* A classifier that lets a dimension rule outrank the name.
classificar_dimensoes_primeiro(largura, altura, profundidade, nome) ==
    LET nome_lower == Lower(nome)
        achados == EntradasComPalavra(nome_lower)
        primeiro == CHOOSE i \in achados : \A j \in achados : i <= j
        dim == ClassificarPorDimensoes(largura, altura, profundidade)
    IN  IF dim.tipo # "Componente" \/ achados = {}
        THEN dim
        ELSE [tipo |-> mapear_tipo(tipos_componentes[primeiro].tipo),
              confianca |-> 900]

\* The name classified by the last entry of the table that matches.
classificar_pela_ultima_entrada(largura, altura, profundidade, nome) ==
    LET nome_lower == Lower(nome)
        achados == EntradasComPalavra(nome_lower)
        ultimo == CHOOSE i \in achados : \A j \in achados : i >= j
    IN  IF achados # {}
        THEN [tipo |-> mapear_tipo(tipos_componentes[ultimo].tipo),
              confianca |-> 900]
        ELSE ClassificarPorDimensoes(largura, altura, profundidade)

classificar_componente(largura, altura, profundidade, nome) ==
    LET nome_lower == Lower(nome)
        achados == EntradasComPalavra(nome_lower)
        primeiro == CHOOSE i \in achados : \A j \in achados : i <= j
    IN  IF achados # {}
        THEN [tipo |-> mapear_tipo(tipos_componentes[primeiro].tipo),
              confianca |-> 900]
        ELSE ClassificarPorDimensoes(largura, altura, profundidade)

\* bounds[1] - bounds[0], absolute values (bounds = <<min, max>>).
Dimensoes(bounds) == [i \in 1..3 |-> Abs(bounds[2][i] - bounds[1][i])]

\* The unit heuristic with the millimetre test at 100 and above.
NormalizarDesde100(dim) ==
    IF Max2(dim[1], Max2(dim[2], dim[3])) >= 100 * 10000
    THEN [i \in 1..3 |-> dim[i] \div 1000]
    ELSE dim

\* The unit heuristic of analisar_geometria: raw extents in 1e-4 raw unit
\* to extents in 1e-4 m.  Above 100 the extents are taken as millimetres
\* and divided by 1000.  In the input sets an extent of 10 or more is a
\* multiple of 0.1, where \div 1000 is exact; a smaller one comes out
\* below 0.01 m, exact or not, and the geometry is dropped.
Normalizar(dim) ==
    IF Max2(dim[1], Max2(dim[2], dim[3])) > 100 * 10000
    THEN [i \in 1..3 |-> dim[i] \div 1000]
    ELSE dim

analisar_geometria(geometry, nome) ==
    IF geometry.bounds = SemBounds THEN None
    ELSE
    LET m == Normalizar(Dimensoes(geometry.bounds))
        largura == m[1]
        altura == m[2]
        profundidade == m[3]
        classe == classificar_componente(largura, altura, profundidade, nome)
    IN  IF largura > 50000 \/ altura > 40000 \/ profundidade > 20000
        THEN None
        ELSE IF Min2(largura, Min2(altura, profundidade)) < 100
        THEN None
        ELSE [nome |-> nome,
              tipo |-> classe.tipo,
              largura_m |-> RoundDiv(largura, 10),
              altura_m |-> RoundDiv(altura, 10),
              profundidade_m |-> RoundDiv(profundidade, 10),
              area_m2 |-> RoundMul(largura, altura, 5),
              volume_m3 |-> RoundMul3(largura, altura, profundidade, 8),
              confianca |-> classe.confianca,
              bounds |-> geometry.bounds]

\* The door of a tall box.
PortaSimulada(l, a, bounds) ==
    [id |-> 1,
     nome |-> <<"p","o","r","t","a","_","e","s","q","u","e","r","d","a">>,
     tipo |-> "Porta",
     largura_m |-> RoundDiv(l - 1000, 20),
     altura_m |-> RoundDiv(9 * a, 100),
     profundidade_m |-> 20,
     area_m2 |-> RoundMul(l - 1000, 45 * a, 7),
     volume_m3 |-> RoundMul(l - 1000, 9 * a, 7),
     confianca |-> 850,
     bounds |-> bounds]

\* Shelf i (0-based, as range() counts) of a tall box, appended when the
\* list holds the door and the i shelves before it.
PrateleiraSimulada(i, l, p, bounds) ==
    [id |-> i + 2,
     nome |-> <<"p","r","a","t","e","l","e","i","r","a","_">> \o Str(i + 1),
     tipo |-> "Prateleira",
     largura_m |-> RoundDiv(l - 1000, 10),
     altura_m |-> 20,
     profundidade_m |-> RoundDiv(p - 1000, 10),
     area_m2 |-> RoundDiv(l - 1000, 500),
     volume_m3 |-> RoundMul(l - 1000, 2 * (p - 1000), 6),
     confianca |-> 800,
     bounds |-> bounds]

BancadaSimulada(l, a, p, bounds) ==
    [id |-> 1,
     nome |-> <<"t","a","m","p","o","_","b","a","n","c","a","d","a">>,
     tipo |-> "Bancada",
     largura_m |-> RoundDiv(l, 10),
     altura_m |-> RoundDiv(a, 10),
     profundidade_m |-> RoundDiv(p, 10),
     area_m2 |-> RoundMul(l, p, 5),
     volume_m3 |-> RoundMul3(l, a, p, 8),
     confianca |-> 900,
     bounds |-> bounds]

\* A simulator that takes a box of exactly 0.3 m for a countertop.
simular_ate_03(bounds) ==
    LET dimensoes == Dimensoes(bounds)
        largura_total == dimensoes[1]
        altura_total == dimensoes[2]
        profundidade_total == dimensoes[3]
        num_prateleiras == Max2(2, altura_total \div 4000)
    IN  IF altura_total > 15000
        THEN <<PortaSimulada(largura_total, altura_total, bounds)>> \o
             [i \in 1..num_prateleiras |->
                PrateleiraSimulada(i - 1, largura_total, profundidade_total,
                                   bounds)]
        ELSE IF altura_total <= 3000
        THEN <<BancadaSimulada(largura_total, altura_total,
                               profundidade_total, bounds)>>
        ELSE << >>

\* The raw extents of bounds are used as they are, as metres.
simular_componentes(bounds) ==
    LET dimensoes == Dimensoes(bounds)
        largura_total == dimensoes[1]
        altura_total == dimensoes[2]
        profundidade_total == dimensoes[3]
        num_prateleiras == Max2(2, altura_total \div 4000)
    IN  IF altura_total > 15000
        THEN <<PortaSimulada(largura_total, altura_total, bounds)>> \o
             [i \in 1..num_prateleiras |->
                PrateleiraSimulada(i - 1, largura_total, profundidade_total,
                                   bounds)]
        ELSE IF altura_total < 3000
        THEN <<BancadaSimulada(largura_total, altura_total,
                               profundidade_total, bounds)>>
        ELSE << >>

\* The Scene branch: the geometries in dict order, those without bounds
\* and those analisar_geometria drops left out.
RECURSIVE GeometriasDaCena(_)
GeometriasDaCena(geometry) ==
    IF geometry = << >> THEN << >>
    ELSE LET g == Head(geometry)
             info == analisar_geometria(g, g.nome)
         IN  (IF g.bounds # SemBounds /\ info # None THEN <<info>> ELSE << >>)
             \o GeometriasDaCena(Tail(geometry))

estrutura_principal ==
    <<"e","s","t","r","u","t","u","r","a","_","p","r","i","n","c","i","p","a","l">>

\* The synthetic components put before the main structure.
extrair_simulados_primeiro(mesh) ==
    IF mesh.classe = "Scene" THEN GeometriasDaCena(mesh.geometry)
    ELSE IF mesh.classe = "Trimesh"
    THEN IF mesh.bounds = SemBounds THEN << >>
         ELSE LET info_principal == analisar_geometria(mesh, estrutura_principal)
              IN  IF info_principal # None
                  THEN simular_componentes(mesh.bounds) \o <<info_principal>>
                  ELSE << >>
    ELSE << >>

extrair_geometrias(mesh) ==
    IF mesh.classe = "Scene" THEN GeometriasDaCena(mesh.geometry)
    ELSE IF mesh.classe = "Trimesh"
    THEN IF mesh.bounds = SemBounds THEN << >>
         ELSE LET info_principal == analisar_geometria(mesh, estrutura_principal)
              IN  IF info_principal # None
                  THEN <<info_principal>> \o simular_componentes(mesh.bounds)
                  ELSE << >>
    ELSE << >>

\* 500 * 1024 * 1024
max_size == 500 * 1024 * 1024

\* A validator that turns away a file of exactly 500 MB.
validar_abaixo_de_500MB(filename, file_size) ==
    LET ext == Lower(SplitextExt(filename))
    IN  IF ext \notin formatos_suportados
        THEN [valido |-> FALSE, mensagem |-> "Formato não suportado"]
        ELSE IF file_size >= max_size
        THEN [valido |-> FALSE, mensagem |-> "Arquivo muito grande"]
        ELSE [valido |-> TRUE, mensagem |-> "Arquivo válido"]

validar_arquivo(filename, file_size) ==
    LET ext == Lower(SplitextExt(filename))
    IN  IF ext \notin formatos_suportados
        THEN [valido |-> FALSE, mensagem |-> "Formato não suportado"]
        ELSE IF file_size > max_size
        THEN [valido |-> FALSE, mensagem |-> "Arquivo muito grande"]
        ELSE [valido |-> TRUE, mensagem |-> "Arquivo válido"]

\* How a run of carregar_mesh can go: the temporary file cannot be created,
\* writing the bytes to it fails, trimesh.load raises, trimesh.load returns.
Desfechos == {"criar_falhou", "escrever_falhou", "carregar_falhou", "carregado"}

\* carregar_mesh: the temporary file is created with delete=False and
\* written inside a with block; only after it comes the try whose finally
\* unlinks the file, around trimesh.load.  Every exception ends in the
\* outer except, which returns None.  resta: the file is still on disk
\* when carregar_mesh returns.
carregar_mesh(desfecho, mesh) ==
    CASE desfecho = "criar_falhou" -> [mesh_data |-> None, resta |-> FALSE]
      [] desfecho = "escrever_falhou" -> [mesh_data |-> None, resta |-> TRUE]
      [] desfecho = "carregar_falhou" -> [mesh_data |-> None, resta |-> FALSE]
      [] desfecho = "carregado" -> [mesh_data |-> mesh, resta |-> FALSE]

\* The name tempfile gives a new temporary file: one not on disk.
NovoTemporario(disco) == Cardinality(disco) + 1

\* st.session_state of a new session, after the sidebar was drawn.
SessaoInicial == [projetos_analisados |-> 0]

\* The row criar_usuario stores: plan 'free', no project this month.
UsuarioNovo == [plano |-> "free", projetos_mes_atual |-> 0]

RECURSIVE SomaCampo(_, _)
SomaCampo(lista, campo) ==
    IF lista = << >> THEN 0
    ELSE Head(lista)[campo] + SomaCampo(Tail(lista), campo)

\* The id given only to a geometry that has none.
ComIdSeFalta(g, i) ==
    [f \in (DOMAIN g) \cup {"id"} |->
        IF f = "id" /\ "id" \notin DOMAIN g THEN i ELSE g[f]]

\* geometria['id'] = i
ComId(g, i) ==
    [f \in (DOMAIN g) \cup {"id"} |-> IF f = "id" THEN i ELSE g[f]]

\* analisar_arquivo reporting success for whatever extrair_geometrias
\* returned, an empty list too.
AnaliseSemTesteDeVazio(mesh, tempo) ==
    IF mesh = None
    THEN [sucesso |-> FALSE,
          erro |-> "Não foi possível carregar o arquivo 3D"]
    ELSE
    LET geometrias == extrair_geometrias(mesh)
    IN  [sucesso |-> TRUE,
         componentes_detectados |-> Len(geometrias),
         area_total_m2 |-> SomaCampo(geometrias, "area_m2"),
         volume_total_m3 |-> SomaCampo(geometrias, "volume_m3"),
         componentes |->
             [i \in 1..Len(geometrias) |-> ComId(geometrias[i], i)],
         tempo_processamento |-> tempo]

\* analisar_arquivo after validation: mesh is what carregar_mesh returned
\* (None when the loader failed), tempo the random tempo_processamento.
AnaliseDaMesh(mesh, tempo) ==
    IF mesh = None
    THEN [sucesso |-> FALSE,
          erro |-> "Não foi possível carregar o arquivo 3D"]
    ELSE
    LET geometrias == extrair_geometrias(mesh)
    IN  IF geometrias = << >>
        THEN [sucesso |-> FALSE,
              erro |-> "Nenhum componente válido encontrado no arquivo"]
        ELSE [sucesso |-> TRUE,
              componentes_detectados |-> Len(geometrias),
              area_total_m2 |-> SomaCampo(geometrias, "area_m2"),
              volume_total_m3 |-> SomaCampo(geometrias, "volume_m3"),
              componentes |->
                  [i \in 1..Len(geometrias) |-> ComId(geometrias[i], i)],
              tempo_processamento |-> tempo]

(***************************************************************************)
(* precos_leo_madeiras.py.  Prices are in centavos, the waste fraction in  *)
(* hundredths, the labour multipliers in tenths.                           *)
(***************************************************************************)
PRECOS_MATERIAIS ==
    "mdf_15mm" :> [preco_m2 |-> 6915, desperdicio_percentual |-> 15]
    @@ "mdf_18mm" :> [preco_m2 |-> 7785, desperdicio_percentual |-> 15]
    @@ "compensado_15mm" :> [preco_m2 |-> 6400, desperdicio_percentual |-> 12]
    @@ "compensado_10mm" :> [preco_m2 |-> 5250, desperdicio_percentual |-> 12]
    @@ "mdp_15mm" :> [preco_m2 |-> 5800, desperdicio_percentual |-> 18]
    @@ "melamina_15mm" :> [preco_m2 |-> 8950, desperdicio_percentual |-> 10]

PRECOS_ACESSORIOS ==
    "comum" :> [dobradica |-> 1250, puxador |-> 1580, corredicica |-> 4500,
                suporte_prateleira |-> 850, fechadura |-> 2500,
                parafuso_kit |-> 350]
    @@ "premium" :> [dobradica |-> 2850, puxador |-> 4500,
                     corredicica |-> 8900, suporte_prateleira |-> 1850,
                     fechadura |-> 6500, parafuso_kit |-> 850]

CUSTOS_MAO_OBRA ==
    [base_m2 |-> 12000,
     multiplicadores_complexidade |->
         ("simples" :> 10 @@ "media" :> 13 @@ "complexa" :> 17
          @@ "premium" :> 22)]

\* The cutting costs without a minimum charge per piece.
CUSTOS_CORTE_sem_taxa_minima ==
    [corte_reto_metro |-> 250, corte_curvo_metro |-> 450,
     furo_dobradica |-> 150, rebaixo_metro |-> 350, chanfro_metro |-> 200,
     taxa_minima |-> 0]

CUSTOS_CORTE ==
    [corte_reto_metro |-> 250, corte_curvo_metro |-> 450,
     furo_dobradica |-> 150, rebaixo_metro |-> 350, chanfro_metro |-> 200,
     taxa_minima |-> 1500]

\* The four dicts as the module defines them when it is imported.
TabelasDoModulo ==
    [PRECOS_MATERIAIS |-> PRECOS_MATERIAIS,
     PRECOS_ACESSORIOS |-> PRECOS_ACESSORIOS,
     CUSTOS_MAO_OBRA |-> CUSTOS_MAO_OBRA,
     CUSTOS_CORTE |-> CUSTOS_CORTE]

\* The minimum charge applied after the extras were added.
CorteComTaxaDepois(comp) ==
    LET perimetro == 2 * (comp.largura_m + comp.altura_m)
        custo_corte ==
            perimetro * tabelas.CUSTOS_CORTE.corte_reto_metro
            + (IF comp.tipo \in {"Porta", "Gaveta"}
               THEN 4 * 1000 * tabelas.CUSTOS_CORTE.furo_dobradica ELSE 0)
            + (IF comp.tipo = "Prateleira"
               THEN comp.largura_m * tabelas.CUSTOS_CORTE.rebaixo_metro ELSE 0)
    IN  Max2(custo_corte, 1000 * tabelas.CUSTOS_CORTE.taxa_minima)

\* The hinge bores charged to doors only.
CorteComFurosSoDePorta(comp) ==
    LET perimetro == 2 * (comp.largura_m + comp.altura_m)
        custo_corte == Max2(perimetro * tabelas.CUSTOS_CORTE.corte_reto_metro,
                            1000 * tabelas.CUSTOS_CORTE.taxa_minima)
    IN  custo_corte
        + (IF comp.tipo = "Porta"
           THEN 4 * 1000 * tabelas.CUSTOS_CORTE.furo_dobradica ELSE 0)
        + (IF comp.tipo = "Prateleira"
           THEN comp.largura_m * tabelas.CUSTOS_CORTE.rebaixo_metro ELSE 0)

\* The cutting cost of one component, unit 1e-5 real (1e-3 m times centavos),
\* at the costs the module's dict holds when it is read.
CorteDoComponente(comp) ==
    LET perimetro == 2 * (comp.largura_m + comp.altura_m)
        custo_corte == Max2(perimetro * tabelas.CUSTOS_CORTE.corte_reto_metro,
                            1000 * tabelas.CUSTOS_CORTE.taxa_minima)
    IN  custo_corte
        + (IF comp.tipo \in {"Porta", "Gaveta"}
           THEN 4 * 1000 * tabelas.CUSTOS_CORTE.furo_dobradica ELSE 0)
        + (IF comp.tipo = "Prateleira"
           THEN comp.largura_m * tabelas.CUSTOS_CORTE.rebaixo_metro ELSE 0)

RECURSIVE SomaCorte(_)
SomaCorte(componentes) ==
    IF componentes = << >> THEN 0
    ELSE CorteDoComponente(Head(componentes)) + SomaCorte(Tail(componentes))

\* Returns round(custo_total, 2), in centavos.
calcular_custo_corte_estimado(componentes) ==
    RoundDiv(SomaCorte(componentes), 1000)

\* An unknown material priced as the last entry of the table.
obter_preco_ou_melamina(tipo_material) ==
    IF tipo_material \in DOMAIN tabelas.PRECOS_MATERIAIS
    THEN tabelas.PRECOS_MATERIAIS[tipo_material]
    ELSE tabelas.PRECOS_MATERIAIS["melamina_15mm"]

obter_preco_material(tipo_material) ==
    IF tipo_material \in DOMAIN tabelas.PRECOS_MATERIAIS
    THEN tabelas.PRECOS_MATERIAIS[tipo_material]
    ELSE tabelas.PRECOS_MATERIAIS["mdf_15mm"]

obter_precos_acessorios(qualidade) ==
    IF qualidade \in DOMAIN tabelas.PRECOS_ACESSORIOS
    THEN tabelas.PRECOS_ACESSORIOS[qualidade]
    ELSE tabelas.PRECOS_ACESSORIOS["comum"]

\* In centavos per m2: 120.00 times 1, 1.3, 1.7 or 2.2.
obter_custo_mao_obra(complexidade) ==
    LET m == tabelas.CUSTOS_MAO_OBRA.multiplicadores_complexidade
        multiplicador == IF complexidade \in DOMAIN m THEN m[complexidade]
                         ELSE 13
    IN  (tabelas.CUSTOS_MAO_OBRA.base_m2 * multiplicador) \div 10

(***************************************************************************)
(* orcamento.py.  Of the returned dicts the model keeps the numbers and    *)
(* the keys they were computed from; the descriptive texts (descricao,     *)
(* fornecedor, fonte_precos) and the clock reading data_orcamento are left *)
(* out.                                                                    *)
(***************************************************************************)
\* The characters of a type name the parser emits.
Letras(tipo) ==
    CASE tipo = "Porta" -> <<"P","o","r","t","a">>
      [] tipo = "Gaveta" -> <<"G","a","v","e","t","a">>
      [] tipo = "Prateleira" -> <<"P","r","a","t","e","l","e","i","r","a">>
      [] tipo = "Bancada" -> <<"B","a","n","c","a","d","a">>
      [] tipo = "Painel" -> <<"P","a","i","n","e","l">>
      [] tipo = "Armário" -> <<"A","r","m","á","r","i","o">>
      [] tipo = "Armário Alto" ->
             <<"A","r","m","á","r","i","o"," ","A","l","t","o">>
      [] tipo = "Armário Baixo" ->
             <<"A","r","m","á","r","i","o"," ","B","a","i","x","o">>
      [] tipo = "Painel Lateral" ->
             <<"P","a","i","n","e","l"," ","L","a","t","e","r","a","l">>
      [] tipo = "Componente" -> <<"C","o","m","p","o","n","e","n","t","e">>

porta == <<"p","o","r","t","a">>

gaveta == <<"g","a","v","e","t","a">>

prateleira == <<"p","r","a","t","e","l","e","i","r","a">>

\* Hinges and a handle for doors only, none for drawers.
QuantidadeSemGavetas(comp, item) ==
    LET tipo == Lower(Letras(comp.tipo))
    IN  CASE item = "dobradica" -> IF Contains(porta, tipo) THEN 2 ELSE 0
          [] item = "puxador" -> IF Contains(porta, tipo) THEN 1 ELSE 0
          [] item = "corredicica" -> IF Contains(gaveta, tipo) THEN 1 ELSE 0
          [] item = "suporte_prateleira" ->
                 IF Contains(prateleira, tipo) THEN 4 ELSE 0

\* How many of an accessory one component takes.
QuantidadeDoComponente(comp, item) ==
    LET tipo == Lower(Letras(comp.tipo))
    IN  CASE item = "dobradica" ->
                 IF Contains(porta, tipo) \/ Contains(gaveta, tipo)
                 THEN 2 ELSE 0
          [] item = "puxador" ->
                 IF Contains(porta, tipo) \/ Contains(gaveta, tipo)
                 THEN 1 ELSE 0
          [] item = "corredicica" -> IF Contains(gaveta, tipo) THEN 1 ELSE 0
          [] item = "suporte_prateleira" ->
                 IF Contains(prateleira, tipo) THEN 4 ELSE 0

RECURSIVE Quantidade(_, _)
Quantidade(componentes, item) ==
    IF componentes = << >> THEN 0
    ELSE QuantidadeDoComponente(Head(componentes), item)
         + Quantidade(Tail(componentes), item)

ItensContados == {"dobradica", "puxador", "corredicica", "suporte_prateleira"}

RECURSIVE SomaDe(_, _)
SomaDe(f, S) ==
    IF S = {} THEN 0
    ELSE LET x == CHOOSE y \in S : TRUE IN f[x] + SomaDe(f, S \ {x})

\* The materials priced on the net area, without the waste.
materiais_sem_desperdicio(componentes, tipo_material) ==
    LET info_material == obter_preco_material(tipo_material)
        area_total == SomaCampo(componentes, "area_m2")
        area_com_desperdicio == DecMul(Dec(area_total), Dec(100))
        custo_total == DecMul(area_com_desperdicio, Dec(info_material.preco_m2))
    IN  [tipo_material |-> tipo_material,
         area_liquida_m2 |-> RoundDiv(area_total, 10),
         desperdicio_percentual |-> info_material.desperdicio_percentual,
         area_com_desperdicio_m2 |-> DecRound(area_com_desperdicio, 3),
         preco_m2 |-> info_material.preco_m2,
         custo_total |-> DecRound(custo_total, 5)]

calcular_materiais(componentes, tipo_material) ==
    LET info_material == obter_preco_material(tipo_material)
        area_total == SomaCampo(componentes, "area_m2")
        \* unit 1e-5 m2
        area_com_desperdicio ==
            DecMul(Dec(area_total),
                   Dec(100 + info_material.desperdicio_percentual))
        \* unit 1e-7 real
        custo_total == DecMul(area_com_desperdicio, Dec(info_material.preco_m2))
    IN  [tipo_material |-> tipo_material,
         area_liquida_m2 |-> RoundDiv(area_total, 10),
         desperdicio_percentual |-> info_material.desperdicio_percentual,
         area_com_desperdicio_m2 |-> DecRound(area_com_desperdicio, 3),
         preco_m2 |-> info_material.preco_m2,
         custo_total |-> DecRound(custo_total, 5)]

\* itens has a key for each accessory some component takes.
calcular_acessorios(componentes, qualidade) ==
    LET precos == obter_precos_acessorios(qualidade)
        presentes == { i \in ItensContados : Quantidade(componentes, i) > 0 }
        itens == [i \in presentes |->
                     [quantidade |-> Quantidade(componentes, i),
                      preco_unitario |-> precos[i],
                      custo_total |-> Quantidade(componentes, i) * precos[i]]]
    IN  [qualidade |-> qualidade,
         itens |-> itens,
         custo_total |->
             SomaDe([i \in presentes |-> itens[i].custo_total], presentes)]

calcular_mao_obra(componentes, complexidade) ==
    LET area_total == SomaCampo(componentes, "area_m2")
        custo_m2 == obter_custo_mao_obra(complexidade)
        \* unit 1e-5 real
        custo_base == DecMul(Dec(area_total), Dec(custo_m2))
    IN  [complexidade |-> complexidade,
         area_m2 |-> RoundDiv(area_total, 10),
         custo_m2 |-> custo_m2,
         custo_base |-> DecRound(custo_base, 3),
         custo_total |-> DecRound(custo_base, 3)]

calcular_corte(componentes) ==
    [componentes_processados |-> Len(componentes),
     custo_total |-> calcular_custo_corte_estimado(componentes)]

\* One entry of custos_individuais.  margem_lucro is in hundredths.
CustoIndividual(comp, configuracoes) ==
    LET info_material == obter_preco_material(configuracoes.tipo_material)
        precos_acessorios ==
            obter_precos_acessorios(configuracoes.qualidade_acessorios)
        custo_mao_obra_m2 == obter_custo_mao_obra(configuracoes.complexidade)
        \* unit 1e-5 m2
        area_com_desperdicio ==
            DecMul(Dec(comp.area_m2),
                   Dec(100 + info_material.desperdicio_percentual))
        \* unit 1e-7 real
        custo_material ==
            DecMul(area_com_desperdicio, Dec(info_material.preco_m2))
        tipo == Lower(Letras(comp.tipo))
        ferragem == Contains(porta, tipo) \/ Contains(gaveta, tipo)
        \* centavos
        custo_acessorios ==
            (IF ferragem
             THEN 2 * precos_acessorios.dobradica + precos_acessorios.puxador
             ELSE 0)
            + (IF Contains(gaveta, tipo)
               THEN precos_acessorios.corredicica ELSE 0)
            + (IF Contains(prateleira, tipo)
               THEN 4 * precos_acessorios.suporte_prateleira ELSE 0)
        acessorios_usados ==
            (IF ferragem THEN <<"2x Dobradiça", "1x Puxador">> ELSE << >>)
            \o (IF Contains(gaveta, tipo) THEN <<"1x Corrediça">> ELSE << >>)
            \o (IF Contains(prateleira, tipo) THEN <<"4x Suporte">> ELSE << >>)
        \* unit 1e-5 real
        custo_mao_obra == DecMul(Dec(comp.area_m2), Dec(custo_mao_obra_m2))
        \* centavos, rounded by the callee
        custo_corte == calcular_custo_corte_estimado(<<comp>>)
        \* unit 1e-7 real
        subtotal ==
            DecSoma(DecSoma(custo_material,
                            DecMul(Dec(custo_acessorios), Dec(100000))),
                    DecSoma(DecMul(custo_mao_obra, Dec(100)),
                            DecMul(Dec(custo_corte), Dec(100000))))
        \* unit 1e-9 real
        valor_margem == DecMul(subtotal, Dec(configuracoes.margem_lucro))
        custo_total == DecSoma(DecMul(subtotal, Dec(100)), valor_margem)
    IN  [componente_id |-> comp.id,
         tipo |-> comp.tipo,
         area_m2 |-> comp.area_m2,
         custo_material |-> DecRound(custo_material, 5),
         custo_acessorios |-> custo_acessorios,
         custo_mao_obra |-> DecRound(custo_mao_obra, 3),
         custo_corte |-> custo_corte,
         subtotal |-> DecRound(subtotal, 5),
         valor_margem |-> DecRound(valor_margem, 7),
         custo_total |-> DecRound(custo_total, 7),
         custo_por_m2 |-> IF comp.area_m2 > 0
                          THEN DecDivRound4(custo_total, comp.area_m2)
                          ELSE 0,
         acessorios_usados |-> acessorios_usados,
         detalhamento |->
             [material |->
                  [tipo |-> configuracoes.tipo_material,
                   area_liquida |-> comp.area_m2,
                   area_com_desperdicio |-> DecRound(area_com_desperdicio, 3),
                   preco_m2 |-> info_material.preco_m2,
                   desperdicio_percentual |->
                       info_material.desperdicio_percentual],
              mao_obra |->
                  [complexidade |-> configuracoes.complexidade,
                   custo_m2 |-> custo_mao_obra_m2]]]

calcular_custos_individuais(componentes, configuracoes) ==
    [i \in 1..Len(componentes) |->
        CustoIndividual(componentes[i], configuracoes)]

\* The configuration used when none is given.
ConfiguracaoPadrao ==
    [tipo_material |-> "mdf_15mm", qualidade_acessorios |-> "comum",
     complexidade |-> "media", margem_lucro |-> 30]

\* The configuration the composer works with: the default when none is
\* given.
Configurado(configuracoes_dadas) ==
    IF configuracoes_dadas = None THEN ConfiguracaoPadrao
    ELSE configuracoes_dadas

\* The dict resumo, from the four category dicts.
Resumo(componentes, configuracoes, materiais, acessorios, mao_obra, corte) ==
    LET \* centavos: the four rounded category totals
        subtotal_antes_margem ==
            materiais.custo_total + acessorios.custo_total
            + mao_obra.custo_total + corte.custo_total
        \* unit 1e-4 real
        valor_margem == subtotal_antes_margem * configuracoes.margem_lucro
        valor_final == 100 * subtotal_antes_margem + valor_margem
        area_total == SomaCampo(componentes, "area_m2")
        valor_por_m2 ==
            IF area_total > 0
            THEN DecDivRound4(DecMul(Dec(valor_final), Dec(100000)),
                              area_total)
            ELSE 0
    IN  [subtotal_materiais |-> materiais.custo_total,
         subtotal_acessorios |-> acessorios.custo_total,
         subtotal_mao_obra |-> mao_obra.custo_total,
         subtotal_corte |-> corte.custo_total,
         subtotal_antes_margem |-> subtotal_antes_margem,
         valor_margem |-> RoundDiv(valor_margem, 100),
         valor_final |-> RoundDiv(valor_final, 100),
         area_total_m2 |-> RoundDiv(area_total, 10),
         valor_por_m2 |-> valor_por_m2]

\* gerar_orcamento_completo taking the margin on the materials alone.
orcamento_com_margem_sobre_materiais(componentes, configuracoes_dadas) ==
    LET configuracoes == IF configuracoes_dadas = None
                         THEN ConfiguracaoPadrao ELSE configuracoes_dadas
        materiais == calcular_materiais(componentes,
                                        configuracoes.tipo_material)
        acessorios == calcular_acessorios(componentes,
                                          configuracoes.qualidade_acessorios)
        mao_obra == calcular_mao_obra(componentes, configuracoes.complexidade)
        corte == calcular_corte(componentes)
        \* centavos: the four rounded category totals
        subtotal_antes_margem ==
            materiais.custo_total + acessorios.custo_total
            + mao_obra.custo_total + corte.custo_total
        \* unit 1e-4 real
        valor_margem == materiais.custo_total * configuracoes.margem_lucro
        valor_final == 100 * subtotal_antes_margem + valor_margem
        area_total == SomaCampo(componentes, "area_m2")
        valor_por_m2 ==
            IF area_total > 0
            THEN DecDivRound4(DecMul(Dec(valor_final), Dec(100000)),
                              area_total)
            ELSE 0
    IN  [configuracoes |-> configuracoes,
         materiais |-> materiais,
         acessorios |-> acessorios,
         mao_obra |-> mao_obra,
         corte |-> corte,
         custos_individuais |->
             calcular_custos_individuais(componentes, configuracoes),
         resumo |->
             [subtotal_materiais |-> materiais.custo_total,
              subtotal_acessorios |-> acessorios.custo_total,
              subtotal_mao_obra |-> mao_obra.custo_total,
              subtotal_corte |-> corte.custo_total,
              subtotal_antes_margem |-> subtotal_antes_margem,
              valor_margem |-> RoundDiv(valor_margem, 100),
              valor_final |-> RoundDiv(valor_final, 100),
              area_total_m2 |-> RoundDiv(area_total, 10),
              valor_por_m2 |-> valor_por_m2]]

\* gerar_orcamento_completo dividing the subtotal, not the final value, by
\* the area.
orcamento_com_taxa_sem_margem(componentes, configuracoes_dadas) ==
    LET configuracoes == IF configuracoes_dadas = None
                         THEN ConfiguracaoPadrao ELSE configuracoes_dadas
        materiais == calcular_materiais(componentes,
                                        configuracoes.tipo_material)
        acessorios == calcular_acessorios(componentes,
                                          configuracoes.qualidade_acessorios)
        mao_obra == calcular_mao_obra(componentes, configuracoes.complexidade)
        corte == calcular_corte(componentes)
        \* centavos: the four rounded category totals
        subtotal_antes_margem ==
            materiais.custo_total + acessorios.custo_total
            + mao_obra.custo_total + corte.custo_total
        \* unit 1e-4 real
        valor_margem == subtotal_antes_margem * configuracoes.margem_lucro
        valor_final == 100 * subtotal_antes_margem + valor_margem
        area_total == SomaCampo(componentes, "area_m2")
        valor_por_m2 ==
            IF area_total > 0
            THEN DecDivRound4(DecMul(Dec(100 * subtotal_antes_margem),
                                     Dec(100000)),
                              area_total)
            ELSE 0
    IN  [configuracoes |-> configuracoes,
         materiais |-> materiais,
         acessorios |-> acessorios,
         mao_obra |-> mao_obra,
         corte |-> corte,
         custos_individuais |->
             calcular_custos_individuais(componentes, configuracoes),
         resumo |->
             [subtotal_materiais |-> materiais.custo_total,
              subtotal_acessorios |-> acessorios.custo_total,
              subtotal_mao_obra |-> mao_obra.custo_total,
              subtotal_corte |-> corte.custo_total,
              subtotal_antes_margem |-> subtotal_antes_margem,
              valor_margem |-> RoundDiv(valor_margem, 100),
              valor_final |-> RoundDiv(valor_final, 100),
              area_total_m2 |-> RoundDiv(area_total, 10),
              valor_por_m2 |-> valor_por_m2]]

gerar_orcamento_completo(componentes, configuracoes_dadas) ==
    LET configuracoes == Configurado(configuracoes_dadas)
        materiais == calcular_materiais(componentes,
                                        configuracoes.tipo_material)
        acessorios == calcular_acessorios(componentes,
                                          configuracoes.qualidade_acessorios)
        mao_obra == calcular_mao_obra(componentes, configuracoes.complexidade)
        corte == calcular_corte(componentes)
    IN  [configuracoes |-> configuracoes,
         materiais |-> materiais,
         acessorios |-> acessorios,
         mao_obra |-> mao_obra,
         corte |-> corte,
         custos_individuais |->
             calcular_custos_individuais(componentes, configuracoes),
         resumo |-> Resumo(componentes, configuracoes, materiais, acessorios,
                           mao_obra, corte)]

(***************************************************************************)
(* Inputs of the parser                                                    *)
(***************************************************************************)
\* The most sub-geometries of a Scene.
MaxGeometrias == 2

\* Extents handed to classificar_componente (1e-4 m): each threshold of
\* the dimension rules and the value next to it.
LargurasClassificadas == {1999, 2000, 3000, 3001, 4000, 4001, 8000, 8001}

AlturasClassificadas ==
    {499, 500, 1499, 1500, 2499, 2500, 4000, 4001, 5000, 5001, 15000, 15001}

ProfundidadesClassificadas == {999, 1000, 3000, 3001, 4000, 4001}

\* Names of sub-geometries.
NomeBox == <<"B","o","x","0","1">>

NomeDoor == <<"D","o","o","r","_","1">>

NomeGavetaLateral == <<"l","a","t","e","r","a","l","_","g","a","v","e","t","a">>

NomeShelfDoor == <<"s","h","e","l","f","_","d","o","o","r">>

NomeArmarioMaiusculo == <<"A","R","M","Á","R","I","O">>

NomeArmarioSemAcento == <<"a","r","m","a","r","i","o">>

NomeMesa == <<"M","e","s","a","2">>

Nomes ==
    {NomeBox, NomeDoor, NomeGavetaLateral, NomeShelfDoor, NomeArmarioMaiusculo,
     NomeArmarioSemAcento, NomeMesa, estrutura_principal}

\* Raw extents of bounding boxes (1e-4 raw unit).  Up to 100 the parser
\* reads them as metres: 0.0502, 0.1, 0.4502, 0.9, 1.0004, 2.75, 5, 5.0001,
\* 20.
\* Above 100 as millimetres: 100.1, 600, 2750.
LargurasBrutas ==
    {502, 1000, 4502, 9000, 10004, 27500, 50000, 50001,
     200000, 1001000, 6000000, 27500000}

\* 0.0098, 0.01, 0.02, 0.2, 0.2998, 0.3, 0.9, 1.5, 1.6, 1.8002, 4, 4.0001,
\* 10 and 12 (millimetres when another extent is above 100), 100.
AlturasBrutas ==
    {98, 100, 200, 2000, 2998, 3000, 9000, 15000, 16000, 18002, 40000, 40001,
     100000, 120000, 1000000}

\* 0.02, 0.1, 0.5002, 1.0004, 2, 2.0002, 15.3, 100.7 mm, 400 mm.
\* The values are chosen so that no product of them falls on a rounding
\* tie, where binary floating point and decimal arithmetic can differ.
ProfundidadesBrutas ==
    {200, 1000, 5002, 10004, 20000, 20002, 153000, 1007000, 4000000}

Origem == <<0, 0, 0>>

Caixas ==
    { <<Origem, <<l, a, p>> >> :
        l \in LargurasBrutas, a \in AlturasBrutas, p \in ProfundidadesBrutas }

\* The boxes handed to simular_componentes: a tall box of raw height h
\* gets floor(h / 0.4) shelves, so the heights stay below 13; and the
\* volume of a countertop 2750 wide and 400 deep does not fit 32 bits.
CaixasSimuladas ==
    { b \in Caixas : b[2][2] <= 120000
                     /\ ~(b[2][1] = 27500000 /\ b[2][3] = 4000000) }

\* The boxes of the sub-geometries of a Scene, one of them without bounds.
CaixasDeCena ==
    { SemBounds,
      <<Origem, <<4502, 18002, 200>> >>,
      <<Origem, <<9000, 200, 5002>> >>,
      <<Origem, <<6000000, 100000, 4000000>> >>,
      <<Origem, <<10004, 9000, 10004>> >>,
      <<Origem, <<50001, 9000, 5002>> >>,
      <<Origem, <<502, 98, 200>> >> }

NomesDeCena == {NomeBox, NomeDoor, NomeGavetaLateral}

\* Scene.geometry: an ordered dict, so the names differ.
Geometrias ==
    { g \in UNION { [1..n -> [nome : NomesDeCena, bounds : CaixasDeCena]] :
                       n \in 0..MaxGeometrias } :
        \A i, j \in 1..Len(g) : i # j => g[i].nome # g[j].nome }

Cenas == { [classe |-> "Scene", geometry |-> g] : g \in Geometrias }

Malhas == { [classe |-> "Trimesh", bounds |-> b] : b \in CaixasSimuladas \cup {SemBounds} }

\* What trimesh.load can return: a Scene, a Trimesh, or another class.
Meshes == Cenas \cup Malhas \cup {[classe |-> "PointCloud"]}

\* tempo_processamento is drawn uniformly from [1.5, 4.2].
Tempos == {15, 42}

NomesDeArquivo ==
    { <<"a",".","o","b","j">>,
      <<"A",".","S","T","L">>,
      <<"m",".","d","a","e">>,
      <<"p",".","p","l","y">>,
      <<"a",".","o","b","j",".","t","x","t">>,
      <<"a",".","f","b","x">>,
      <<"o","b","j">>,
      <<".","o","b","j">>,
      <<"d",".","x","/","p","l","y">> }

\* len(file_content)
Tamanhos == {0, max_size, max_size + 1}

(***************************************************************************)
(* The parser's methods as actions.  chamada is a call with its arguments, *)
(* drawn by Init; the action of the method called runs it and leaves what  *)
(* it returned in ret.                                                     *)
(***************************************************************************)
ChamadasDoParser ==
    \/ \E l \in LargurasClassificadas, a \in AlturasClassificadas,
          p \in ProfundidadesClassificadas, nome \in Nomes :
           chamada = [op |-> "classificar_componente", largura |-> l,
                      altura |-> a, profundidade |-> p, nome |-> nome]
    \/ \E b \in Caixas \cup {SemBounds},
          nome \in {NomeBox, NomeDoor, estrutura_principal} :
           chamada = [op |-> "analisar_geometria", bounds |-> b, nome |-> nome]
    \/ \E b \in CaixasSimuladas :
           chamada = [op |-> "simular_componentes", bounds |-> b]
    \/ \E mesh \in Meshes :
           chamada = [op |-> "extrair_geometrias", mesh |-> mesh]
    \/ \E filename \in NomesDeArquivo, file_size \in Tamanhos :
           chamada = [op |-> "validar_arquivo", filename |-> filename,
                      file_size |-> file_size]
    \/ \E filename \in NomesDeArquivo, file_size \in Tamanhos :
           chamada = [op |-> "analisar_arquivo", filename |-> filename,
                      file_size |-> file_size]
    \/ \E filename \in {<<"a",".","o","b","j">>, <<"a",".","f","b","x">>} :
           chamada = [op |-> "carregar_mesh", filename |-> filename]

InitParser ==
    /\ tabelas = TabelasDoModulo
    /\ ChamadasDoParser
    /\ fase = "chamar"
    /\ ret = << >>
    /\ mesh_data = None
    /\ loader_chamado = FALSE
    /\ temporarios = {}
    /\ pedidos = << >>
    /\ sessao = SessaoInicial
    /\ usuario = UsuarioNovo
    /\ execucoes = << >>
    /\ sessoes = << >>

Chamando(op) == fase = "chamar" /\ chamada.op = op

Retornar(valor) ==
    /\ ret' = valor
    /\ fase' = "retornou"
    /\ UNCHANGED chamada

ClassificarComponente ==
    /\ Chamando("classificar_componente")
    /\ Retornar(classificar_componente(chamada.largura, chamada.altura,
                                       chamada.profundidade, chamada.nome))
    /\ UNCHANGED <<mesh_data, loader_chamado, temporarios, pedidos, sessao, usuario>>
    /\ UNCHANGED <<tabelas, execucoes, sessoes>>

AnalisarGeometria ==
    /\ Chamando("analisar_geometria")
    /\ Retornar(analisar_geometria([bounds |-> chamada.bounds], chamada.nome))
    /\ UNCHANGED <<mesh_data, loader_chamado, temporarios, pedidos, sessao, usuario>>
    /\ UNCHANGED <<tabelas, execucoes, sessoes>>

SimularComponentes ==
    /\ Chamando("simular_componentes")
    /\ Retornar(simular_componentes(chamada.bounds))
    /\ UNCHANGED <<mesh_data, loader_chamado, temporarios, pedidos, sessao, usuario>>
    /\ UNCHANGED <<tabelas, execucoes, sessoes>>

ExtrairGeometrias ==
    /\ Chamando("extrair_geometrias")
    /\ Retornar(extrair_geometrias(chamada.mesh))
    /\ UNCHANGED <<mesh_data, loader_chamado, temporarios, pedidos, sessao, usuario>>
    /\ UNCHANGED <<tabelas, execucoes, sessoes>>

ValidarArquivo ==
    /\ Chamando("validar_arquivo")
    /\ Retornar(validar_arquivo(chamada.filename, chamada.file_size))
    /\ UNCHANGED <<mesh_data, loader_chamado, temporarios, pedidos, sessao, usuario>>
    /\ UNCHANGED <<tabelas, execucoes, sessoes>>

\* carregar_mesh: how the run goes, and what trimesh.load makes of the
\* bytes, is the choice of the file system and of the loader.
CarregarMesh ==
    /\ Chamando("carregar_mesh")
    /\ \E desfecho \in Desfechos :
       \E mesh \in IF desfecho = "carregado" THEN Meshes ELSE {None} :
       LET carga == carregar_mesh(desfecho, mesh)
       IN  /\ Retornar(carga.mesh_data)
           /\ loader_chamado' = TRUE
           /\ mesh_data' = carga.mesh_data
           /\ temporarios' =
                IF carga.resta
                THEN temporarios \cup {NovoTemporario(temporarios)}
                ELSE temporarios
           /\ UNCHANGED <<pedidos, sessao, usuario>>
    /\ UNCHANGED <<tabelas, execucoes, sessoes>>

\* analisar_arquivo: the loader runs only for a valid file; what it makes
\* of the bytes is the loader's choice.
AnalisarArquivo ==
    /\ Chamando("analisar_arquivo")
    /\ LET v == validar_arquivo(chamada.filename, chamada.file_size)
       IN  IF ~v.valido
           THEN /\ Retornar([sucesso |-> FALSE, erro |-> v.mensagem])
                /\ UNCHANGED <<mesh_data, loader_chamado, temporarios,
                               pedidos, sessao, usuario>>
           ELSE \E desfecho \in Desfechos, tempo \in Tempos :
                \E mesh \in IF desfecho = "carregado" THEN Meshes ELSE {None} :
                LET carga == carregar_mesh(desfecho, mesh)
                IN  /\ Retornar(AnaliseDaMesh(carga.mesh_data, tempo))
                    /\ loader_chamado' = TRUE
                    /\ mesh_data' = carga.mesh_data
                    /\ temporarios' =
                         IF carga.resta
                         THEN temporarios \cup {NovoTemporario(temporarios)}
                         ELSE temporarios
                    /\ UNCHANGED <<pedidos, sessao, usuario>>
    /\ UNCHANGED <<tabelas, execucoes, sessoes>>

NextParser ==
    \/ ClassificarComponente
    \/ AnalisarGeometria
    \/ SimularComponentes
    \/ ExtrairGeometrias
    \/ ValidarArquivo
    \/ AnalisarArquivo
    \/ CarregarMesh

SpecParser == InitParser /\ [][NextParser]_vars

(***************************************************************************)
(* Inputs of the budget composer: the component lists of analysed meshes,  *)
(* as app.py passes them on, and the empty list.                           *)
(***************************************************************************)
NomePrateleira == <<"p","r","a","t","e","l","e","i","r","a","_","a">>

\* Single meshes: wardrobes 1.2 x 2.13 x 0.56 m, 0.57 x 2 x 0.4 m,
\* 0.932 x 1.8 x 0.476 m and 2.76 x 1.83 x 0.48 m, a rail 0.052 m wide
\* (its simulated door and shelves have negative extents), a low top, and
\* a post 0.12 m wide (its simulated shelves have area 0.000).
MalhasOrcadas ==
    { [classe |-> "Trimesh", bounds |-> <<Origem, b>>] :
        b \in { <<12000, 21300, 5600>>, <<5700, 20000, 4000>>,
                <<9320, 18000, 4760>>, <<27600, 18300, 4800>>,
                <<520, 15930, 240>>, <<8930, 150, 5080>>,
                <<1200, 15760, 1510>> } }

\* Scenes: one door 0.45 x 1.8 x 0.02 m; a drawer and a door; a low
\* cabinet, a table top and a shelf.
CenasOrcadas ==
    { [classe |-> "Scene", geometry |-> g] :
        g \in { << [nome |-> NomeDoor,
                    bounds |-> <<Origem, <<4500, 18000, 200>> >>] >>,
                << [nome |-> NomeGavetaLateral,
                    bounds |-> <<Origem, <<4990, 2020, 4430>> >>],
                   [nome |-> NomeShelfDoor,
                    bounds |-> <<Origem, <<8030, 260, 2910>> >>] >>,
                << [nome |-> NomeBox,
                    bounds |-> <<Origem, <<7980, 6970, 4910>> >>],
                   [nome |-> NomeMesa,
                    bounds |-> <<Origem, <<12000, 7420, 5990>> >>],
                   [nome |-> NomePrateleira,
                    bounds |-> <<Origem, <<8070, 150, 2930>> >>] >> } }

ListasDeComponentes ==
    { AnaliseDaMesh(m, 15).componentes : m \in MalhasOrcadas \cup CenasOrcadas }
    \cup { << >> }

\* The keys of the tables and one key that is in none of them.
TiposDeMaterial == (DOMAIN PRECOS_MATERIAIS) \cup {"compensado_18mm"}

Qualidades == (DOMAIN PRECOS_ACESSORIOS) \cup {"luxo"}

Complexidades ==
    (DOMAIN CUSTOS_MAO_OBRA.multiplicadores_complexidade) \cup {"artesanal"}

\* margem_lucro in hundredths: -0.2, 0, 0.2, 0.4, 1 and 1.2.
Margens == {-20, 0, 20, 40, 100, 120}

Configuracoes ==
    [tipo_material : TiposDeMaterial, qualidade_acessorios : Qualidades,
     complexidade : Complexidades, margem_lucro : Margens]

InitOrcamento ==
    /\ tabelas = TabelasDoModulo
    /\ \E componentes \in ListasDeComponentes,
          configuracoes \in Configuracoes \cup {None} :
           chamada = [op |-> "gerar_orcamento_completo",
                      componentes |-> componentes,
                      configuracoes |-> configuracoes]
    /\ fase = "chamar"
    /\ ret = << >>
    /\ mesh_data = None
    /\ loader_chamado = FALSE
    /\ temporarios = {}
    /\ pedidos = << >>
    /\ sessao = SessaoInicial
    /\ usuario = UsuarioNovo
    /\ execucoes = << >>
    /\ sessoes = << >>

GerarOrcamentoCompleto ==
    /\ Chamando("gerar_orcamento_completo")
    /\ Retornar(gerar_orcamento_completo(chamada.componentes,
                                         chamada.configuracoes))
    /\ UNCHANGED <<mesh_data, loader_chamado, temporarios, pedidos, sessao, usuario>>
    /\ UNCHANGED <<tabelas, execucoes, sessoes>>

NextOrcamento == GerarOrcamentoCompleto

SpecOrcamento == InitOrcamento /\ [][NextOrcamento]_vars

(***************************************************************************)
(* app.py: calcular_orcamento and the analysis button of                   *)
(* mostrar_aplicacao_principal.  A configuration value arrives as text and *)
(* is normalised into the key the price tables are read with.              *)
(***************************************************************************)
\* The keys of the price tables and the other keys the inputs normalise to.
Chaves ==
    (DOMAIN PRECOS_MATERIAIS) \cup {"compensado_18mm", "melamina_18mm"}
    \cup (DOMAIN PRECOS_ACESSORIOS) \cup {"luxo"}
    \cup (DOMAIN CUSTOS_MAO_OBRA.multiplicadores_complexidade)
    \cup {"artesanal"}

\* The characters of a key.
TextoDaChave(chave) ==
    CASE chave = "mdf_15mm" -> <<"m","d","f","_","1","5","m","m">>
      [] chave = "mdf_18mm" -> <<"m","d","f","_","1","8","m","m">>
      [] chave = "compensado_15mm" ->
             <<"c","o","m","p","e","n","s","a","d","o","_","1","5","m","m">>
      [] chave = "compensado_10mm" ->
             <<"c","o","m","p","e","n","s","a","d","o","_","1","0","m","m">>
      [] chave = "mdp_15mm" -> <<"m","d","p","_","1","5","m","m">>
      [] chave = "melamina_15mm" ->
             <<"m","e","l","a","m","i","n","a","_","1","5","m","m">>
      [] chave = "compensado_18mm" ->
             <<"c","o","m","p","e","n","s","a","d","o","_","1","8","m","m">>
      [] chave = "melamina_18mm" ->
             <<"m","e","l","a","m","i","n","a","_","1","8","m","m">>
      [] chave = "comum" -> <<"c","o","m","u","m">>
      [] chave = "premium" -> <<"p","r","e","m","i","u","m">>
      [] chave = "luxo" -> <<"l","u","x","o">>
      [] chave = "simples" -> <<"s","i","m","p","l","e","s">>
      [] chave = "media" -> <<"m","e","d","i","a">>
      [] chave = "complexa" -> <<"c","o","m","p","l","e","x","a">>
      [] chave = "artesanal" -> <<"a","r","t","e","s","a","n","a","l">>

\* The key spelled by a text.
ChaveDoTexto(texto) == CHOOSE chave \in Chaves : TextoDaChave(chave) = texto

\* str.replace(de, por) for one-character de and por
Replace(s, de, por) == [i \in 1..Len(s) |-> IF s[i] = de THEN por ELSE s[i]]

\* calcular_orcamento without its test of analise['sucesso'].
calcular_sem_verificar(analise, tipo_material, qualidade_acessorios, complexidade_mao_obra, margem_lucro) ==
    LET configuracoes ==
            [tipo_material |->
                 ChaveDoTexto(Replace(Lower(tipo_material), " ", "_")),
             qualidade_acessorios |->
                 ChaveDoTexto(Lower(qualidade_acessorios)),
             complexidade |-> ChaveDoTexto(Lower(complexidade_mao_obra)),
             margem_lucro |-> margem_lucro]
        componentes == IF "componentes" \in DOMAIN analise
                       THEN analise.componentes ELSE << >>
    IN  [pedido |-> TRUE,
         orcamento |-> gerar_orcamento_completo(componentes, configuracoes)]

\* The composer is not called for a failed analysis.  pedido: it was called
\* with analise['componentes'].
calcular_orcamento(analise, tipo_material, qualidade_acessorios, complexidade_mao_obra, margem_lucro) ==
    IF ~analise.sucesso
    THEN [pedido |-> FALSE, orcamento |-> None]
    ELSE
    LET configuracoes ==
            [tipo_material |->
                 ChaveDoTexto(Replace(Lower(tipo_material), " ", "_")),
             qualidade_acessorios |->
                 ChaveDoTexto(Lower(qualidade_acessorios)),
             complexidade |-> ChaveDoTexto(Lower(complexidade_mao_obra)),
             margem_lucro |-> margem_lucro]
    IN  [pedido |-> TRUE,
         orcamento |->
             gerar_orcamento_completo(analise.componentes, configuracoes)]

\* SistemaAuth.planos: limite_projetos_mes, -1 for no limit.
planos ==
    [free |-> [limite_projetos_mes |-> 3],
     basic |-> [limite_projetos_mes |-> 50],
     pro |-> [limite_projetos_mes |-> 200],
     enterprise |-> [limite_projetos_mes |-> -1]]

verificar_limite_projetos(u) ==
    LET limite == planos[u.plano].limite_projetos_mes
    IN  IF limite = -1 THEN TRUE ELSE u.projetos_mes_atual < limite

incrementar_contador_projetos(u) ==
    [u EXCEPT !.projetos_mes_atual = @ + 1]

\* analisar_arquivo: carga is what carregar_mesh does when it is called.
analisar_arquivo(filename, file_size, carga, tempo) ==
    LET v == validar_arquivo(filename, file_size)
    IN  IF ~v.valido
        THEN [sucesso |-> FALSE, erro |-> v.mensagem]
        ELSE AnaliseDaMesh(carga.mesh_data, tempo)

(***************************************************************************)
(* Inputs and actions of the application                                   *)
(***************************************************************************)
\* The most temporary files left on disk.
MaxTemporarios == 1

\* The most projects of the month a user without limit is followed up to.
MaxProjetos == 8

\* What the loader can make of an upload: a wardrobe as one mesh, a scene
\* of a drawer and a door, and a point cloud, which has no component.
MeshesDoApp ==
    { [classe |-> "Trimesh", bounds |-> <<Origem, <<5700, 20000, 4000>> >>],
      [classe |-> "Scene",
       geometry |-> << [nome |-> NomeGavetaLateral,
                        bounds |-> <<Origem, <<4990, 2020, 4430>> >>],
                       [nome |-> NomeShelfDoor,
                        bounds |-> <<Origem, <<8030, 260, 2910>> >>] >>],
      [classe |-> "PointCloud"] }

\* The uploader takes obj, dae, stl and ply files, of any size.
ArquivosEnviados == { <<"a",".","o","b","j">>, <<"A",".","S","T","L">> }

TamanhosEnviados == {0, max_size + 1}

\* The sidebar: a material of the select box, the margin slider at its
\* initial 30 %.
MateriaisDaBarra == { TextoDaChave("mdf_15mm"), TextoDaChave("melamina_18mm") }

QualidadesDaBarra == { TextoDaChave("comum") }

ComplexidadesDaBarra == { TextoDaChave("media") }

MargensDaBarra == {30}

\* The ends of the slider.
MargensPedidas == {10, 50}

\* Texts as a caller of calcular_orcamento may spell them.
MDF_15MM == <<"M","D","F"," ","1","5","M","M">>

Premium == <<"P","r","e","m","i","u","m">>

Complexa == <<"C","O","M","P","L","E","X","A">>

\* The analyses calcular_orcamento is called with: successful and failed.
AnalisesDoApp ==
    { analisar_arquivo(f, t, carregar_mesh(d, m), 15) :
        f \in ArquivosEnviados, t \in TamanhosEnviados,
        d \in {"carregado", "carregar_falhou"}, m \in MeshesDoApp }

UsuariosDoApp ==
    [plano : {"free"}, projetos_mes_atual : 0..3]
    \cup [plano : {"enterprise"}, projetos_mes_atual : {7}]

\* A session on the analysis page, or one call of calcular_orcamento.
InitApp ==
    /\ tabelas = TabelasDoModulo
    /\ \/ chamada = [op |-> "mostrar_aplicacao_principal"]
       \/ \E analise \in AnalisesDoApp,
             tipo_material \in MateriaisDaBarra \cup {MDF_15MM},
             qualidade \in QualidadesDaBarra \cup {Premium},
             complexidade \in ComplexidadesDaBarra \cup {Complexa},
             margem \in MargensPedidas :
              chamada = [op |-> "calcular_orcamento", analise |-> analise,
                         tipo_material |-> tipo_material,
                         qualidade_acessorios |-> qualidade,
                         complexidade_mao_obra |-> complexidade,
                         margem_lucro |-> margem]
    /\ fase = "chamar"
    /\ ret = << >>
    /\ mesh_data = None
    /\ loader_chamado = FALSE
    /\ temporarios = {}
    /\ pedidos = << >>
    /\ sessao = SessaoInicial
    /\ usuario \in UsuariosDoApp
    /\ execucoes = << >>
    /\ sessoes = << >>

\* The end of a call of calcular_orcamento that returned r.
OrcamentoCalculado(r) ==
    /\ Retornar(r.orcamento)
    /\ pedidos' = IF r.pedido THEN Append(pedidos, chamada.analise)
                  ELSE pedidos

CalcularOrcamento ==
    /\ Chamando("calcular_orcamento")
    /\ OrcamentoCalculado(
           calcular_orcamento(chamada.analise, chamada.tipo_material,
                              chamada.qualidade_acessorios,
                              chamada.complexidade_mao_obra,
                              chamada.margem_lucro))
    /\ UNCHANGED <<mesh_data, loader_chamado, temporarios, sessao, usuario>>
    /\ UNCHANGED <<tabelas, execucoes, sessoes>>

\* The handler after the composer returned r: a successful analysis is
\* counted and kept in the session with its budget.
ProjetoOrcado(analise, r) ==
    IF analise.sucesso
    THEN /\ pedidos' = IF r.pedido THEN Append(pedidos, analise) ELSE pedidos
         /\ ret' = [analise |-> analise, orcamento |-> r.orcamento]
         /\ IF r.orcamento # None
            THEN /\ usuario' = incrementar_contador_projetos(usuario)
                 /\ sessao' =
                      [ultima_analise |-> analise,
                       ultimo_orcamento |-> r.orcamento,
                       projetos_analisados |->
                           sessao.projetos_analisados + 1]
            ELSE UNCHANGED <<usuario, sessao>>
    ELSE /\ ret' = [analise |-> analise, orcamento |-> None]
         /\ UNCHANGED <<pedidos, usuario, sessao>>

\* The handler after the parser returned analise.
ProjetoAnalisado(analise, tipo_material, qualidade, complexidade, margem) ==
    ProjetoOrcado(analise,
                  calcular_orcamento(analise, tipo_material, qualidade,
                                     complexidade, margem))

\* The button "Analisar Projeto": the page is drawn only while the user is
\* below the plan's limit; the file is analysed and, when the analysis
\* succeeded, budgeted, counted and kept in the session.
AnalisarProjeto ==
    /\ chamada.op = "mostrar_aplicacao_principal"
    /\ verificar_limite_projetos(usuario)
    /\ usuario.projetos_mes_atual < MaxProjetos
    /\ \E filename \in ArquivosEnviados, file_size \in TamanhosEnviados,
          desfecho \in Desfechos, tempo \in {15},
          tipo_material \in MateriaisDaBarra,
          qualidade \in QualidadesDaBarra,
          complexidade \in ComplexidadesDaBarra,
          margem \in MargensDaBarra :
       \E mesh \in IF desfecho = "carregado" THEN MeshesDoApp ELSE {None} :
       LET v == validar_arquivo(filename, file_size)
           carga == IF v.valido THEN carregar_mesh(desfecho, mesh)
                    ELSE [mesh_data |-> None, resta |-> FALSE]
       IN  /\ carga.resta => Cardinality(temporarios) < MaxTemporarios
           /\ temporarios' =
                IF carga.resta
                THEN temporarios \cup {NovoTemporario(temporarios)}
                ELSE temporarios
           /\ mesh_data' = carga.mesh_data
           /\ loader_chamado' = v.valido
           /\ fase' = "retornou"
           /\ UNCHANGED chamada
           /\ ProjetoAnalisado(
                  analisar_arquivo(filename, file_size, carga, tempo),
                  tipo_material, qualidade, complexidade, margem)
    /\ UNCHANGED <<tabelas, execucoes, sessoes>>

NextApp ==
    \/ CalcularOrcamento
    \/ AnalisarProjeto

SpecApp == InitApp /\ [][NextApp]_vars

(***************************************************************************)
(* Budget computations running at the same time.  app.py has one           *)
(* SistemaOrcamento and one copy of the tables for all sessions; each call *)
(* of gerar_orcamento_completo has its own local variables and takes the   *)
(* steps of orcamento.py:212-272 one helper at a time, with the steps of   *)
(* other calls in between.                                                 *)
(***************************************************************************)
\* How many computations run at the same time.
MaxExecucoes == 2

Execucoes == 1..MaxExecucoes

\* A drawer and a door; a low cabinet, a table top and a shelf.
ListasSimultaneas ==
    { AnaliseDaMesh(m, 15).componentes :
        m \in { c \in CenasOrcadas : Len(c.geometry) > 1 } }

ConfiguracoesSimultaneas ==
    { None,
      [tipo_material |-> "mdf_18mm", qualidade_acessorios |-> "premium",
       complexidade |-> "complexa", margem_lucro |-> 40] }

\* A call before its first step.
Chamada(componentes, configuracoes_dadas) ==
    [pc |-> "chamar", componentes |-> componentes,
     configuracoes_dadas |-> configuracoes_dadas, configuracoes |-> None,
     materiais |-> None, acessorios |-> None, mao_obra |-> None,
     corte |-> None, resumo |-> None, resultado |-> None]

ChamadasSimultaneas ==
    { Chamada(c, k) : c \in ListasSimultaneas, k \in ConfiguracoesSimultaneas }

InitTabelas ==
    /\ tabelas = TabelasDoModulo
    /\ execucoes \in [Execucoes -> ChamadasSimultaneas]
    /\ chamada = [op |-> "gerar_orcamento_completo"]
    /\ fase = "simultaneas"
    /\ ret = << >>
    /\ mesh_data = None
    /\ loader_chamado = FALSE
    /\ temporarios = {}
    /\ pedidos = << >>
    /\ sessao = SessaoInicial
    /\ usuario = UsuarioNovo
    /\ sessoes = << >>

\* What no step of a budget writes.
ForaDoOrcamento ==
    <<chamada, fase, ret, mesh_data, loader_chamado, temporarios, pedidos,
      sessao, usuario, sessoes>>

Em(r, pc) == execucoes[r].pc = pc

\* orcamento.py:215-221
Configurar(r) ==
    /\ Em(r, "chamar")
    /\ execucoes' =
         [execucoes EXCEPT
            ![r] = [@ EXCEPT !.pc = "materiais",
                             !.configuracoes =
                                 Configurado(execucoes[r].configuracoes_dadas)]]
    /\ UNCHANGED tabelas
    /\ UNCHANGED ForaDoOrcamento

\* orcamento.py:224
CalcularMateriais(r) ==
    /\ Em(r, "materiais")
    /\ execucoes' =
         [execucoes EXCEPT
            ![r] = [@ EXCEPT
                      !.pc = "acessorios",
                      !.materiais =
                          calcular_materiais(
                              execucoes[r].componentes, execucoes[r].configuracoes.tipo_material)]]
    /\ UNCHANGED tabelas
    /\ UNCHANGED ForaDoOrcamento

\* The helper keeping each item's total in the price dict it was given.
CalcularAcessoriosNaTabela(r) ==
    /\ Em(r, "acessorios")
    /\ LET e == execucoes[r]
           qualidade == e.configuracoes.qualidade_acessorios
           chave == IF qualidade \in DOMAIN tabelas.PRECOS_ACESSORIOS
                    THEN qualidade ELSE "comum"
           acessorios == calcular_acessorios(e.componentes, qualidade)
       IN  /\ execucoes' =
                [execucoes EXCEPT ![r] = [@ EXCEPT !.pc = "mao_obra",
                                                   !.acessorios = acessorios]]
           /\ tabelas' =
                [tabelas EXCEPT
                   !.PRECOS_ACESSORIOS[chave] =
                       [i \in DOMAIN @ |->
                           IF i \in DOMAIN acessorios.itens
                           THEN acessorios.itens[i].custo_total ELSE @[i]]]
    /\ UNCHANGED ForaDoOrcamento

\* orcamento.py:225: the helper fills a dict of its own, itens, and reads
\* the prices.
CalcularAcessorios(r) ==
    /\ Em(r, "acessorios")
    /\ execucoes' =
         [execucoes EXCEPT
            ![r] = [@ EXCEPT
                      !.pc = "mao_obra",
                      !.acessorios =
                          calcular_acessorios(
                              execucoes[r].componentes,
                              execucoes[r].configuracoes.qualidade_acessorios)]]
    /\ UNCHANGED tabelas
    /\ UNCHANGED ForaDoOrcamento

\* orcamento.py:226
CalcularMaoObra(r) ==
    /\ Em(r, "mao_obra")
    /\ execucoes' =
         [execucoes EXCEPT
            ![r] = [@ EXCEPT
                      !.pc = "corte",
                      !.mao_obra =
                          calcular_mao_obra(execucoes[r].componentes,
                                            execucoes[r].configuracoes.complexidade)]]
    /\ UNCHANGED tabelas
    /\ UNCHANGED ForaDoOrcamento

\* orcamento.py:227
CalcularCorte(r) ==
    /\ Em(r, "corte")
    /\ execucoes' =
         [execucoes EXCEPT
            ![r] = [@ EXCEPT !.pc = "resumo",
                             !.corte = calcular_corte(execucoes[r].componentes)]]
    /\ UNCHANGED tabelas
    /\ UNCHANGED ForaDoOrcamento

\* orcamento.py:229-257
Resumir(r) ==
    /\ Em(r, "resumo")
    /\ execucoes' =
         [execucoes EXCEPT
            ![r] = [@ EXCEPT
                      !.pc = "custos_individuais",
                      !.resumo =
                          Resumo(execucoes[r].componentes, execucoes[r].configuracoes, execucoes[r].materiais,
                                 execucoes[r].acessorios, execucoes[r].mao_obra, execucoes[r].corte)]]
    /\ UNCHANGED tabelas
    /\ UNCHANGED ForaDoOrcamento

\* orcamento.py:259-272
CalcularCustosIndividuais(r) ==
    /\ Em(r, "custos_individuais")
    /\ execucoes' =
         [execucoes EXCEPT
            ![r] = [@ EXCEPT
                      !.pc = "retornou",
                      !.resultado =
                          [configuracoes |-> execucoes[r].configuracoes,
                           materiais |-> execucoes[r].materiais,
                           acessorios |-> execucoes[r].acessorios,
                           mao_obra |-> execucoes[r].mao_obra,
                           corte |-> execucoes[r].corte,
                           custos_individuais |->
                               calcular_custos_individuais(
                                   execucoes[r].componentes, execucoes[r].configuracoes),
                           resumo |-> execucoes[r].resumo]]]
    /\ UNCHANGED tabelas
    /\ UNCHANGED ForaDoOrcamento

\* The next call of a session whose call returned.
NovaChamada(r) ==
    /\ Em(r, "retornou")
    /\ \E c \in ChamadasSimultaneas :
          execucoes' = [execucoes EXCEPT ![r] = c]
    /\ UNCHANGED tabelas
    /\ UNCHANGED ForaDoOrcamento

NextTabelas ==
    \E r \in Execucoes :
        \/ Configurar(r)
        \/ CalcularMateriais(r)
        \/ CalcularAcessorios(r)
        \/ CalcularMaoObra(r)
        \/ CalcularCorte(r)
        \/ Resumir(r)
        \/ CalcularCustosIndividuais(r)
        \/ NovaChamada(r)

SpecTabelas == InitTabelas /\ [][NextTabelas]_vars

(***************************************************************************)
(* Sessions of one user at the same time.  Each browser session runs       *)
(* mostrar_aplicacao_principal on its own; the row of the user in          *)
(* usuarios.db is the only thing they share.  A run of the page reads the  *)
(* row at its top (app.py:247-251), the button handler analyses and        *)
(* budgets the upload (app.py:388-401) and then writes the row             *)
(* (app.py:403-405); the steps of other sessions come in between.  The     *)
(* analysis is taken by its result.                                        *)
(***************************************************************************)
\* The most sessions of the user open at once.
MaxSessoes == 2

Sessoes == 1..MaxSessoes

\* The users on a plan with a monthly limit.
UsuariosComLimite ==
    { u \in UsuariosDoApp : planos[u.plano].limite_projetos_mes # -1 }

\* The sessions leave the select box at one material.
MateriaisDasSessoes == { TextoDaChave("mdf_15mm") }

\* A session before its page is drawn, with st.session_state as the page
\* first sets it (app.py:309-310).
SessaoAberta ==
    [pc |-> "ocioso", analise |-> None, orcamento |-> None,
     ultima_analise |-> None, ultimo_orcamento |-> None,
     projetos_analisados |-> SessaoInicial.projetos_analisados]

InitSessoes ==
    /\ tabelas = TabelasDoModulo
    /\ sessoes = [s \in Sessoes |-> SessaoAberta]
    /\ usuario \in UsuariosComLimite
    /\ chamada = [op |-> "mostrar_aplicacao_principal"]
    /\ fase = "simultaneas"
    /\ ret = << >>
    /\ mesh_data = None
    /\ loader_chamado = FALSE
    /\ temporarios = {}
    /\ pedidos = << >>
    /\ sessao = SessaoInicial
    /\ execucoes = << >>

\* What no step of a session writes.
ForaDasSessoes ==
    <<chamada, fase, ret, mesh_data, loader_chamado, temporarios, pedidos,
      sessao, tabelas, execucoes>>

\* app.py:247-251: the top of a run of the page reads the row; at the limit
\* the run ends with the plans, below it the page is drawn.
VerificarLimite(s) ==
    /\ sessoes[s].pc \in {"ocioso", "bloqueada"}
    /\ sessoes' =
         [sessoes EXCEPT ![s].pc =
             IF verificar_limite_projetos(usuario) THEN "pagina"
             ELSE "bloqueada"]
    /\ UNCHANGED usuario
    /\ UNCHANGED ForaDasSessoes

\* The handler of session s after the composer returned r: with a budget
\* the session goes on to count the project, without one the run ends.
SessaoOrcada(s, analise, r) ==
    sessoes' =
        [sessoes EXCEPT ![s] =
            IF r.orcamento # None
            THEN [sessoes[s] EXCEPT !.pc = "contar", !.analise = analise,
                                    !.orcamento = r.orcamento]
            ELSE [sessoes[s] EXCEPT !.pc = "ocioso"]]

\* app.py:388-401: the button on the drawn page analyses the upload and
\* budgets a successful analysis.
AnalisarNaSessao(s) ==
    /\ sessoes[s].pc = "pagina"
    /\ \E analise \in AnalisesDoApp, tipo_material \in MateriaisDasSessoes,
          qualidade \in QualidadesDaBarra,
          complexidade \in ComplexidadesDaBarra, margem \in MargensDaBarra :
          IF analise.sucesso
          THEN SessaoOrcada(s, analise,
                            calcular_orcamento(analise, tipo_material,
                                               qualidade, complexidade,
                                               margem))
          ELSE sessoes' = [sessoes EXCEPT ![s].pc = "ocioso"]
    /\ UNCHANGED usuario
    /\ UNCHANGED ForaDasSessoes

\* app.py:403-411: the project is counted in the row and kept in the
\* session, and the page runs again.
ContarProjeto(s) ==
    /\ sessoes[s].pc = "contar"
    /\ usuario' = incrementar_contador_projetos(usuario)
    /\ sessoes' =
         [sessoes EXCEPT ![s] =
             [pc |-> "ocioso", analise |-> None, orcamento |-> None,
              ultima_analise |-> sessoes[s].analise,
              ultimo_orcamento |-> sessoes[s].orcamento,
              projetos_analisados |-> sessoes[s].projetos_analisados + 1]]
    /\ UNCHANGED ForaDasSessoes

NextSessoes ==
    \E s \in Sessoes :
        \/ VerificarLimite(s)
        \/ AnalisarNaSessao(s)
        \/ ContarProjeto(s)

SpecSessoes == InitSessoes /\ [][NextSessoes]_vars

(***************************************************************************)
(* Logins.  The row of the user holds, besides plano and                   *)
(* projetos_mes_atual, the e-mail, the hash of the password, ativo, and    *)
(* the texts data_ultimo_login and data_reset_projetos.  A datetime is a   *)
(* record of year, month and the instant within the month.                 *)
(***************************************************************************)
\* The readings of datetime.now(): the first and the last instant of
\* October and November of two years.
Instantes ==
    [ano : {2025, 2026}, mes : {10, 11}, instante : {"primeiro", "ultimo"}]

\* a is not after b.
NaoDepois(a, b) ==
    \/ a.ano < b.ano
    \/ a.ano = b.ano /\ a.mes < b.mes
    \/ a.ano = b.ano /\ a.mes = b.mes
          /\ (a.instante = "primeiro" \/ b.instante = "ultimo")

\* The clock at a later statement of the same call: the same instant or
\* the one after it.
LogoDepois(a) ==
    { b \in Instantes :
        /\ NaoDepois(a, b)
        /\ \A c \in Instantes : (NaoDepois(a, c) /\ NaoDepois(c, b))
                                     => c \in {a, b} }

\* datetime.isoformat: the text year-month-instant.
isoformat(d) == <<d.ano, d.mes, d.instante>>

\* datetime.fromisoformat
fromisoformat(texto) ==
    [ano |-> texto[1], mes |-> texto[2], instante |-> texto[3]]

\* hashlib.sha256(senha.encode()).hexdigest(): a digest that tells the
\* passwords apart.
hash_senha(senha) == <<"sha256", senha>>

EmailDoUsuario == "ana@exemplo.com"

SenhaDoUsuario == "segredo"

\* The rows criar_usuario and the months of use leave: the counter of the
\* month of data_reset_projetos, no login so far.
LinhasDeUsuario ==
    { [id |-> "u1", email |-> EmailDoUsuario, nome |-> "Ana",
       senha_hash |-> hash_senha(SenhaDoUsuario), plano |-> "free",
       ativo |-> 1, data_ultimo_login |-> None,
       projetos_mes_atual |-> n, data_reset_projetos |-> isoformat(d)] :
        n \in 0..planos["free"].limite_projetos_mes, d \in Instantes }

\* Verificar se deve resetar contador de projetos mensais: the row after
\* the call.
verificar_reset_projetos(linha, agora) ==
    LET data_reset == fromisoformat(linha.data_reset_projetos)
    IN  IF agora.mes # data_reset.mes \/ agora.ano # data_reset.ano
        THEN [linha EXCEPT !.projetos_mes_atual = 0,
                           !.data_reset_projetos = isoformat(agora)]
        ELSE linha

\* The dict autenticar_usuario builds from the row it selected.
UsuarioDaLinha(resultado) ==
    [id |-> resultado.id, email |-> resultado.email,
     nome |-> resultado.nome, plano |-> resultado.plano,
     projetos_mes_atual |-> resultado.projetos_mes_atual,
     data_reset_projetos |-> resultado.data_reset_projetos]

\* autenticar_usuario: what it returns and the row it leaves; agora and
\* depois are the clock at the update of data_ultimo_login and inside
\* the reset test.
autenticar_usuario(linha, email, senha, agora, depois) ==
    IF linha.email = email /\ linha.senha_hash = hash_senha(senha)
          /\ linha.ativo = 1
    THEN [usuario |-> UsuarioDaLinha(linha),
          linha |->
              verificar_reset_projetos(
                  [linha EXCEPT !.data_ultimo_login = isoformat(agora)],
                  depois)]
    ELSE [usuario |-> None, linha |-> linha]

\* The logins tried at an instant: the user's or another e-mail, the
\* right or a wrong password.
Logins(agora) ==
    [op : {"autenticar_usuario"}, email : {EmailDoUsuario, "eva@exemplo.com"},
     senha : {SenhaDoUsuario, "errada"}, agora : {agora}]

InitAuth ==
    /\ tabelas = TabelasDoModulo
    /\ usuario \in LinhasDeUsuario
    /\ \E agora \in Instantes :
          /\ NaoDepois(fromisoformat(usuario.data_reset_projetos), agora)
          /\ chamada \in Logins(agora)
    /\ fase = "chamar"
    /\ ret = << >>
    /\ mesh_data = None
    /\ loader_chamado = FALSE
    /\ temporarios = {}
    /\ pedidos = << >>
    /\ sessao = SessaoInicial
    /\ execucoes = << >>
    /\ sessoes = << >>

\* What no login writes.
ForaDoLogin ==
    <<mesh_data, loader_chamado, temporarios, pedidos, sessao, tabelas,
      execucoes, sessoes>>

\* The call returned r.
Autenticado(r) ==
    /\ Retornar(r.usuario)
    /\ usuario' = r.linha

AutenticarUsuario ==
    /\ Chamando("autenticar_usuario")
    /\ \E depois \in LogoDepois(chamada.agora) :
          Autenticado(autenticar_usuario(usuario, chamada.email,
                                         chamada.senha, chamada.agora,
                                         depois))
    /\ UNCHANGED ForaDoLogin

\* The next login, not before anything the row records.
NovoLogin ==
    /\ fase = "retornou"
    /\ chamada.op = "autenticar_usuario"
    /\ \E agora \in Instantes :
          /\ NaoDepois(chamada.agora, agora)
          /\ NaoDepois(fromisoformat(usuario.data_reset_projetos), agora)
          /\ chamada' \in Logins(agora)
    /\ fase' = "chamar"
    /\ ret' = << >>
    /\ UNCHANGED usuario
    /\ UNCHANGED ForaDoLogin

NextAuth ==
    \/ AutenticarUsuario
    \/ NovoLogin

SpecAuth == InitAuth /\ [][NextAuth]_vars

(***************************************************************************)
(* Properties of the parser                                                *)
(***************************************************************************)
Retornou(op) == fase = "retornou" /\ chamada.op = op

\* The raw extents of the call's bounding box, 1e-4 raw unit.
Brutas == Dimensoes(chamada.bounds)

MaiorBruta == Max2(Brutas[1], Max2(Brutas[2], Brutas[3]))

MenorBruta == Min2(Brutas[1], Min2(Brutas[2], Brutas[3]))

\* No extent below 0.01 m, width at most 5 m, height 4 m, depth 2 m.
ExtensoesPlausiveis(c) ==
    /\ c.largura_m >= 10 /\ c.altura_m >= 10 /\ c.profundidade_m >= 10
    /\ c.largura_m <= 5000 /\ c.altura_m <= 4000 /\ c.profundidade_m <= 2000

\* C3: no component returned by extrair_geometrias, or listed in a
\* successful analisar_arquivo result, has an extent below 0.01 m, a width
\* above 5 m, a height above 4 m or a depth above 2 m.
C3_NenhumComponenteImplausivel ==
    /\ Retornou("extrair_geometrias")
         => \A i \in 1..Len(ret) : ExtensoesPlausiveis(ret[i])
    /\ Retornou("analisar_arquivo") /\ ret.sucesso
         => \A i \in 1..Len(ret.componentes) :
                ExtensoesPlausiveis(ret.componentes[i])

\* The metres the claim C4 speaks of, for a component of analisar_geometria:
\* round(width x height, 3) and round(width x height x depth, 4), from the
\* raw extents r2 and the divisor of the unit (1 for metres, 1000 for mm).
AreaDeBrutas(r, mm) ==
    IF mm THEN RoundMul(r[1], r[2], 11) ELSE RoundMul(r[1], r[2], 5)

VolumeDeBrutas(r, mm) ==
    IF mm THEN RoundMul3(r[1], r[2], r[3], 17) ELSE RoundMul3(r[1], r[2], r[3], 8)

\* area = round(w x h) and volume = round(w x h x d) for the component
\* analisar_geometria returned.
AreaVolumeMedidos ==
    Retornou("analisar_geometria") /\ ret # None
        => /\ ret.area_m2 = AreaDeBrutas(Brutas, MaiorBruta > 1000000)
           /\ ret.volume_m3 = VolumeDeBrutas(Brutas, MaiorBruta > 1000000)

\* The same for the simulated door (w = l/2 - 0.05, h = 0.9 a, d = 0.02)
\* and shelves (w = l - 0.1, h = 0.02, d = p - 0.1): in 1e-5 m the door is
\* 5l - 5000 wide and 9a high.
AreaVolumePortaPrateleiras ==
    Retornou("simular_componentes")
        => \A i \in 1..Len(ret) :
            /\ ret[i].tipo = "Porta"
                 => /\ ret[i].area_m2
                         = RoundMul(5 * Brutas[1] - 5000, 9 * Brutas[2], 7)
                    /\ ret[i].volume_m3
                         = RoundMul(5 * Brutas[1] - 5000, 18 * Brutas[2], 8)
            /\ ret[i].tipo = "Prateleira"
                 => /\ ret[i].area_m2 = RoundMul(Brutas[1] - 1000, 200, 5)
                    /\ ret[i].volume_m3
                         = RoundMul(Brutas[1] - 1000, 200 * (Brutas[3] - 1000), 8)

VolumeBancada ==
    Retornou("simular_componentes")
        => \A i \in 1..Len(ret) :
            ret[i].tipo = "Bancada"
                => ret[i].volume_m3 = VolumeDeBrutas(Brutas, FALSE)

\* C4: for every component of analisar_geometria and of
\* simular_componentes, area_m2 is the rounded product of its width and
\* height and volume_m3 the rounded product of width, height and depth.
C4_AreaLarguraPorAltura ==
    /\ AreaVolumeMedidos
    /\ AreaVolumePortaPrateleiras
    /\ VolumeBancada
    /\ Retornou("simular_componentes")
         => \A i \in 1..Len(ret) :
             ret[i].tipo = "Bancada"
                 => ret[i].area_m2 = AreaDeBrutas(Brutas, FALSE)

\* C5: every component of a successful analysis result has area_m2 >= 0,
\* volume_m3 >= 0 and a confidence from 0 to 1.
C5_AreaVolumeNaoNegativos ==
    Retornou("analisar_arquivo") /\ ret.sucesso
        => \A i \in 1..Len(ret.componentes) :
            /\ ret.componentes[i].area_m2 >= 0
            /\ ret.componentes[i].volume_m3 >= 0
            /\ ret.componentes[i].confianca \in 0..1000

\* The types whose keywords the lower-cased name of the call contains.
TiposPeloNome ==
    { tipos_componentes[i].tipo :
        i \in EntradasComPalavra(Lower(chamada.nome)) }

NomesAmigaveis ==
    [armario |-> "Armário", gaveta |-> "Gaveta", porta |-> "Porta",
     prateleira |-> "Prateleira", bancada |-> "Bancada", painel |-> "Painel"]

\* C6: when the lower-cased name contains a keyword of the table,
\* classificar_componente returns a type the name maps to, at confidence
\* 0.9, whatever the dimensions; a confidence other than 0.9 (a dimension
\* rule) comes only with a name that holds no keyword.
C6_NomeAntesDasDimensoes ==
    Retornou("classificar_componente")
        => /\ TiposPeloNome # {}
                => /\ ret.confianca = 900
                   /\ \E t \in TiposPeloNome : ret.tipo = NomesAmigaveis[t]
           /\ ret.confianca # 900 => TiposPeloNome = {}

\* "Door_1" with the extents of a countertop is a door at 0.9.
C6_PortaComMedidasDeBancada ==
    /\ Retornou("classificar_componente")
    /\ chamada.nome = NomeDoor
    /\ chamada.altura < 1500 /\ chamada.largura > 8000
    /\ chamada.profundidade > 4000
    /\ ret = [tipo |-> "Porta", confianca |-> 900]

\* The dimension rules as the claim C7 lists them: rule i holds of
\* (w, h, d); 1e-4 m, so that 0.15 m is 1500.
RegraVale(i, w, h, d) ==
    CASE i = 1 -> h < 1500 /\ w > 8000 /\ d > 4000
      [] i = 2 -> h < 500 /\ w > 3000
      [] i = 3 -> h > 4000 /\ w > 3000 /\ d < 1000
      [] i = 4 -> h < 2500 /\ w > 3000 /\ d > 3000
      [] i = 5 -> h > 5000 /\ w > 4000 /\ d > 3000
      [] i = 6 -> h > 5000 /\ w < 2000
      [] i = 7 -> TRUE

RegraDa(i, h) ==
    CASE i = 1 -> [tipo |-> "Bancada", confianca |-> 800]
      [] i = 2 -> [tipo |-> "Prateleira", confianca |-> 700]
      [] i = 3 -> [tipo |-> "Porta", confianca |-> 700]
      [] i = 4 -> [tipo |-> "Gaveta", confianca |-> 700]
      [] i = 5 -> IF h > 15000
                  THEN [tipo |-> "Armário Alto", confianca |-> 800]
                  ELSE [tipo |-> "Armário Baixo", confianca |-> 700]
      [] i = 6 -> [tipo |-> "Painel Lateral", confianca |-> 600]
      [] i = 7 -> [tipo |-> "Componente", confianca |-> 500]

RegrasQueValem ==
    { i \in 1..7 : RegraVale(i, chamada.largura, chamada.altura,
                             chamada.profundidade) }

\* C7: with no keyword in the name, classificar_componente returns the
\* type and confidence of the first rule that holds, in the order
\* countertop, shelf, door, drawer, cabinet (tall above 1.5 m), side panel,
\* generic component.
C7_PrimeiraRegraVence ==
    Retornou("classificar_componente") /\ TiposPeloNome = {}
        => \E i \in RegrasQueValem :
            /\ \A j \in RegrasQueValem : i <= j
            /\ ret = RegraDa(i, chamada.altura)

\* Countertop, shelf and drawer all hold of 0.8001 x 0.0499 x 0.4001.
C7_BancadaAntesDePrateleira ==
    /\ Retornou("classificar_componente") /\ TiposPeloNome = {}
    /\ {1, 2, 4} \subseteq RegrasQueValem
    /\ ret = [tipo |-> "Bancada", confianca |-> 800]

\* C8: analisar_geometria reads the raw extents as millimetres, dividing
\* them by 1000, exactly when the largest is above 100, and as metres
\* otherwise: the component's extents are the raw ones so read, rounded to
\* the millimetre, and the box is dropped exactly when so read it is beyond
\* 5 x 4 x 2 m or has an extent below 0.01 m.
C8_MilimetrosAcimaDe100 ==
    Retornou("analisar_geometria") /\ chamada.bounds # SemBounds
        => LET f == IF MaiorBruta > 100 * 10000 THEN 1000 ELSE 1
           IN  /\ ret = None
                    <=> \/ Brutas[1] > 50000 * f \/ Brutas[2] > 40000 * f
                        \/ Brutas[3] > 20000 * f \/ MenorBruta < 100 * f
               /\ ret # None
                    => /\ ret.largura_m = RoundDiv(Brutas[1], 10 * f)
                       /\ ret.altura_m = RoundDiv(Brutas[2], 10 * f)
                       /\ ret.profundidade_m = RoundDiv(Brutas[3], 10 * f)

\* A box 2750 wide is 2.75 m wide.
C8_De2750Para275 ==
    /\ Retornou("analisar_geometria") /\ chamada.bounds # SemBounds
    /\ MaiorBruta = 2750 * 10000 /\ Brutas[1] = MaiorBruta
    /\ ret # None /\ ret.largura_m = 2750

\* max(2, floor(h / 0.4)) for a raw height h.
PrateleirasEsperadas(h) ==
    CHOOSE n \in 2..(h + 2) :
        \/ n = 2 /\ h < 3 * 4000
        \/ 4000 * n <= h /\ h < 4000 * (n + 1)

ExtensoesDaSpec ==
    { <<"o","b","j">>, <<"d","a","e">>, <<"s","t","l">>, <<"p","l","y">> }

\* The file name ends in a dot and one of obj, dae, stl, ply (in either
\* case), and its last path component has more than dots before that dot.
ExtensaoAceita(filename) ==
    LET n == Len(filename)
    IN  /\ n >= 5
        /\ Lower(SubSeq(filename, n - 2, n)) \in ExtensoesDaSpec
        /\ filename[n - 3] = "."
        /\ \E i \in 1..(n - 4) :
            /\ filename[i] # "."
            /\ \A j \in i..(n - 4) : filename[j] # "/"

Rejeitado ==
    \/ ~ExtensaoAceita(chamada.filename)
    \/ chamada.file_size > 500 * 1024 * 1024

\* C10: validar_arquivo rejects a file exactly when its extension is not
\* one of obj, dae, stl, ply or its size is above 500 MB; analisar_arquivo
\* then returns a failure without calling the loader, and calls the loader
\* for every other file.
C10_ValidacaoDoArquivo ==
    /\ Retornou("validar_arquivo") => (ret.valido <=> ~Rejeitado)
    /\ Retornou("analisar_arquivo")
         => /\ Rejeitado
                 => ~ret.sucesso /\ ~loader_chamado /\ mesh_data = None
            /\ ~Rejeitado => loader_chamado

\* An .obj of 500 MB and one byte is turned away before the loader runs.
C10_GrandeDemais ==
    /\ Retornou("analisar_arquivo")
    /\ ExtensaoAceita(chamada.filename)
    /\ chamada.file_size = 500 * 1024 * 1024 + 1
    /\ ret = [sucesso |-> FALSE, erro |-> "Arquivo muito grande"]
    /\ ~loader_chamado

(***************************************************************************)
(* Properties of the budget                                                *)
(***************************************************************************)
\* C1: for every non-empty component list and every configuration, the
\* 'subtotal' fields of custos_individuais add up to
\* resumo['subtotal_antes_margem'] within 0.01 (one centavo).
C1_SomaDosSubtotais ==
    Retornou("gerar_orcamento_completo") /\ chamada.componentes # << >>
        => Abs(SomaCampo(ret.custos_individuais, "subtotal")
               - ret.resumo.subtotal_antes_margem) <= 1

\* The margin fraction of the call, in hundredths: the given one, or the
\* one of the configuration taken when none is given.
MargemDaChamada ==
    IF chamada.configuracoes = None
    THEN ConfiguracaoPadrao.margem_lucro
    ELSE chamada.configuracoes.margem_lucro

\* C2: gerar_orcamento_completo returns no budget when the margin fraction
\* is outside [0, 1) or the component list is empty.
C2_ConfiguracaoInvalidaRejeitada ==
    /\ Retornou("gerar_orcamento_completo")
    /\ \/ chamada.componentes = << >>
       \/ MargemDaChamada < 0
       \/ MargemDaChamada >= 100
    => "resumo" \notin DOMAIN ret

(***************************************************************************)
(* Properties of the application                                           *)
(***************************************************************************)
\* C11: the composer is never called with the components of a failed
\* analysis: every analysis handed to it succeeded, calcular_orcamento
\* returns None for a failed one, a failed analysis of the page leaves no
\* budget, and the analysis kept in the session is a successful one.
C11_AnaliseFalhaSemOrcamento ==
    /\ \A i \in 1..Len(pedidos) : pedidos[i].sucesso
    /\ Retornou("calcular_orcamento") /\ ~chamada.analise.sucesso
         => ret = None /\ pedidos = << >>
    /\ Retornou("mostrar_aplicacao_principal") /\ ~ret.analise.sucesso
         => ret.orcamento = None
    /\ "ultima_analise" \in DOMAIN sessao
         => /\ sessao.ultima_analise.sucesso
            /\ sessao.ultima_analise = pedidos[Len(pedidos)]

\* An upload that fails after one that was budgeted: no budget for it, and
\* the composer was called once.
C11_FalhaDepoisDeSucesso ==
    /\ Retornou("mostrar_aplicacao_principal")
    /\ ~ret.analise.sucesso /\ ret.orcamento = None
    /\ Len(pedidos) = 1
    /\ sessao.ultima_analise = pedidos[1]

\* C12: analisar_arquivo returns a structured result and no partial
\* success: a result is either a failure holding only the flag and an error
\* message, or a success with at least one component and its totals; when
\* the loader gave no mesh, and when no component survived the filters, it
\* is the failure with the message of that case.
C12_ResultadoEstruturado ==
    Retornou("analisar_arquivo")
        => /\ ret.sucesso \in BOOLEAN
           /\ ~ret.sucesso => DOMAIN ret = {"sucesso", "erro"}
           /\ ret.sucesso
                => /\ {"componentes", "componentes_detectados",
                       "area_total_m2", "volume_total_m3"} \subseteq DOMAIN ret
                   /\ Len(ret.componentes) >= 1
                   /\ ret.componentes_detectados = Len(ret.componentes)
           /\ loader_chamado /\ mesh_data = None
                => ret = [sucesso |-> FALSE,
                          erro |-> "Não foi possível carregar o arquivo 3D"]
           /\ loader_chamado /\ mesh_data # None
                => (ret.sucesso <=> extrair_geometrias(mesh_data) # << >>)
           /\ loader_chamado /\ mesh_data # None /\ ~ret.sucesso
                => ret.erro = "Nenhum componente válido encontrado no arquivo"

\* A scene of two geometries of which none survives the filters.
C12_CenaSemSobreviventes ==
    /\ Retornou("analisar_arquivo")
    /\ mesh_data # None /\ mesh_data.classe = "Scene"
    /\ Len(mesh_data.geometry) = 2
    /\ \A i \in 1..2 : mesh_data.geometry[i].bounds # SemBounds
    /\ ret = [sucesso |-> FALSE,
              erro |-> "Nenhum componente válido encontrado no arquivo"]

\* C13: on every exit path of carregar_mesh the temporary file it created
\* is gone when it returns: no temporary file is on disk after a call of
\* carregar_mesh, or of analisar_arquivo, which calls it.
C13_TemporarioRemovido ==
    Retornou("carregar_mesh") \/ Retornou("analisar_arquivo")
        => temporarios = {}

(***************************************************************************)
(* Properties of the budget summary                                        *)
(***************************************************************************)
\* The budget a call of gerar_orcamento_completo returned.
Orcado == Retornou("gerar_orcamento_completo")

\* C14: in every budget summary valor_margem is subtotal_antes_margem x
\* margin and valor_final is subtotal_antes_margem x (1 + margin), each to
\* the centavo (within half a centavo of the exact product); with margin 0
\* the final value is the subtotal.
C14_MargemSobreSubtotal ==
    Orcado
        => LET r == ret.resumo
               m == ret.configuracoes.margem_lucro
           IN  /\ Abs(100 * r.valor_margem - r.subtotal_antes_margem * m) <= 50
               /\ Abs(100 * r.valor_final
                      - r.subtotal_antes_margem * (100 + m)) <= 50
               /\ m = 0 => r.valor_final = r.subtotal_antes_margem

\* A budget at margin 0.4 whose margin is not a whole number of centavos
\* before rounding.
C14_MargemArredondada ==
    /\ Orcado
    /\ ret.configuracoes.margem_lucro = 40
    /\ (ret.resumo.subtotal_antes_margem * 40) % 100 # 0
    /\ ret.resumo.valor_final > ret.resumo.subtotal_antes_margem

\* The rate rate (centavos per m2) is the value valor (centavos) divided by
\* the area area (1e-3 m2), to the centavo: within half a centavo of the
\* quotient of the value, itself known to half a centavo.
TaxaPorArea(rate, valor, area) ==
    2 * Abs(rate * area - 1000 * valor) <= area + 1000

\* C15: the rate per area is the final value divided by the total area
\* when the area is positive and 0 when the area is 0, as for the empty
\* component list; the same holds of custo_por_m2, custo_total and area_m2
\* of each component.
C15_ValorPorArea ==
    Orcado
        => LET area == SomaCampo(chamada.componentes, "area_m2")
           IN  /\ area > 0 => TaxaPorArea(ret.resumo.valor_por_m2,
                                          ret.resumo.valor_final, area)
               /\ area = 0 => ret.resumo.valor_por_m2 = 0
               /\ chamada.componentes = << >> => ret.resumo.valor_por_m2 = 0
               /\ Len(ret.custos_individuais) = Len(chamada.componentes)
               /\ \A i \in 1..Len(ret.custos_individuais) :
                    LET c == ret.custos_individuais[i]
                    IN  /\ c.area_m2 = chamada.componentes[i].area_m2
                        /\ c.area_m2 > 0
                             => TaxaPorArea(c.custo_por_m2, c.custo_total,
                                            c.area_m2)
                        /\ c.area_m2 = 0 => c.custo_por_m2 = 0

\* A budget with a shelf of area 0.000 m2, which costs, at rate 0.
C15_PrateleiraSemArea ==
    /\ Orcado
    /\ \E i \in 1..Len(ret.custos_individuais) :
         /\ ret.custos_individuais[i].area_m2 = 0
         /\ ret.custos_individuais[i].custo_total > 0
         /\ ret.custos_individuais[i].custo_por_m2 = 0
    /\ ret.resumo.valor_por_m2 > 0

\* The call of the example: one door 0.45 x 1.8 x 0.02 m of area 0.81 m2,
\* budgeted in mdf_15mm with common accessories, medium labour and margin
\* 0.30.
PortaDoExemplo ==
    /\ Orcado
    /\ Len(chamada.componentes) = 1
    /\ chamada.componentes[1].tipo = "Porta"
    /\ chamada.componentes[1].largura_m = 450
    /\ chamada.componentes[1].altura_m = 1800
    /\ chamada.componentes[1].profundidade_m = 20
    /\ chamada.componentes[1].area_m2 = 810
    /\ ret.configuracoes = [tipo_material |-> "mdf_15mm",
                            qualidade_acessorios |-> "comum",
                            complexidade |-> "media", margem_lucro |-> 30]

\* C16: the budget of the example is material 64.41, accessories 40.80,
\* labour 126.36, cutting 21.00, subtotal 252.57, margin 75.77 and final
\* value 328.34.
C16_OrcamentoDaPorta ==
    PortaDoExemplo
        => /\ ret.resumo.subtotal_materiais = 6441
           /\ ret.resumo.subtotal_acessorios = 4080
           /\ ret.resumo.subtotal_mao_obra = 12636
           /\ ret.resumo.subtotal_corte = 2100
           /\ ret.resumo.subtotal_antes_margem = 25257
           /\ ret.resumo.valor_margem = 7577
           /\ ret.resumo.valor_final = 32834

\* The example was budgeted: two hinges and a handle, and the minimum
\* charge of 15.00 for the cut.
C16_PortaOrcada ==
    /\ PortaDoExemplo
    /\ ret.acessorios.itens["dobradica"].quantidade = 2
    /\ ret.acessorios.itens["puxador"].quantidade = 1
    /\ ret.custos_individuais[1].custo_corte = 2100

\* How many components of the call have one of the types.
Conta(tipos) ==
    Cardinality({ i \in 1..Len(chamada.componentes) :
                    chamada.componentes[i].tipo \in tipos })

\* The quantity of an accessory in the budget: 0 when it is not listed.
QuantidadeOrcada(item) ==
    IF item \in DOMAIN ret.acessorios.itens
    THEN ret.acessorios.itens[item].quantidade ELSE 0

\* C17: the accessory cost is the sum of quantity x unit price of the
\* selected tier, with 2 hinges and 1 handle for every door and drawer, 1
\* slide pair more for every drawer, 4 supports for every shelf and nothing
\* for any other component.
C17_Acessorios ==
    Orcado
        => LET precos == PRECOS_ACESSORIOS[
                             IF ret.configuracoes.qualidade_acessorios
                                    \in DOMAIN PRECOS_ACESSORIOS
                             THEN ret.configuracoes.qualidade_acessorios
                             ELSE "comum"]
               portas_gavetas == Conta({"Porta", "Gaveta"})
               gavetas == Conta({"Gaveta"})
               prateleiras == Conta({"Prateleira"})
           IN  /\ QuantidadeOrcada("dobradica") = 2 * portas_gavetas
               /\ QuantidadeOrcada("puxador") = portas_gavetas
               /\ QuantidadeOrcada("corredicica") = gavetas
               /\ QuantidadeOrcada("suporte_prateleira") = 4 * prateleiras
               /\ ret.resumo.subtotal_acessorios =
                      2 * portas_gavetas * precos.dobradica
                      + portas_gavetas * precos.puxador
                      + gavetas * precos.corredicica
                      + 4 * prateleiras * precos.suporte_prateleira
               /\ ret.acessorios.custo_total = ret.resumo.subtotal_acessorios

\* A drawer and a door with premium accessories: 4 hinges, 2 handles and a
\* slide pair, 293.00.
C17_GavetaEPorta ==
    /\ Orcado
    /\ Len(chamada.componentes) = 2
    /\ Conta({"Gaveta"}) = 1 /\ Conta({"Porta"}) = 1
    /\ ret.configuracoes.qualidade_acessorios = "premium"
    /\ ret.resumo.subtotal_acessorios = 29300

\* The cutting of one piece as the price list states it, in 1e-5 real:
\* 2.50 a metre of perimeter and at least 15.00, then 1.50 for each of the
\* 4 hinge bores of a door or drawer and 3.50 a metre of a shelf's width.
CorteDaPeca(comp) ==
    LET reto == 2 * (comp.largura_m + comp.altura_m) * 250
    IN  (IF reto < 1500000 THEN 1500000 ELSE reto)
        + (IF comp.tipo \in {"Porta", "Gaveta"} THEN 4 * 150000 ELSE 0)
        + (IF comp.tipo = "Prateleira" THEN comp.largura_m * 350 ELSE 0)

\* The pieces whose straight cut is below the minimum charge.
PecasNaTaxaMinima ==
    { i \in 1..Len(chamada.componentes) :
        2 * (chamada.componentes[i].largura_m
             + chamada.componentes[i].altura_m) * 250 < 1500000 }

\* C18: the cutting cost is the sum over the components of the larger of
\* perimeter x straight-cut cost and the minimum charge, plus 4 hinge bores
\* for a door or drawer and width x rebate cost for a shelf, the minimum
\* being applied to each component before its extras are added; the reported
\* amount is that sum rounded to the centavo.
C18_Corte ==
    Orcado
        => LET n == Len(chamada.componentes)
               soma == SomaDe([i \in 1..n |->
                                  CorteDaPeca(chamada.componentes[i])], 1..n)
           IN  /\ 2 * Abs(1000 * ret.corte.custo_total - soma) <= 1000
               /\ ret.resumo.subtotal_corte = ret.corte.custo_total
               /\ ret.corte.componentes_processados = n

\* A list with a shelf of positive width and a door or drawer, both charged
\* the minimum, and a piece whose perimeter is charged.
C18_TaxaMinimaEExtras ==
    /\ Orcado
    /\ \E i, j \in PecasNaTaxaMinima :
           /\ chamada.componentes[i].tipo = "Prateleira"
           /\ chamada.componentes[i].largura_m > 0
           /\ chamada.componentes[j].tipo \in {"Porta", "Gaveta"}
    /\ \E k \in 1..Len(chamada.componentes) : k \notin PecasNaTaxaMinima
    /\ ret.corte.custo_total > 0

\* The sum of the area_m2 of the components of the call, in 1e-3 m2.
AreaDaChamada ==
    LET n == Len(chamada.componentes)
    IN  SomaDe([i \in 1..n |-> chamada.componentes[i].area_m2], 1..n)

\* The price list entry of the material of the budget.
MaterialOrcado ==
    PRECOS_MATERIAIS[IF ret.configuracoes.tipo_material
                            \in DOMAIN PRECOS_MATERIAIS
                     THEN ret.configuracoes.tipo_material ELSE "mdf_15mm"]

\* C19: the material cost is total area x (1 + waste fraction of the
\* selected material) x the material's price per m2, the total area being the
\* sum of the components' area_m2; the reported amount is that product
\* rounded to the centavo.  The area with waste, in 1e-5 m2, is split in
\* thousands so that the product stays within 32 bits.
C19_Materiais ==
    Orcado
        => LET com_desperdicio ==
                   AreaDaChamada * (100 + MaterialOrcado.desperdicio_percentual)
               milhares == com_desperdicio \div 1000
               resto == com_desperdicio % 1000
               preco == MaterialOrcado.preco_m2
               diferenca == 100 * ret.materiais.custo_total - milhares * preco
           IN  /\ Abs(diferenca) <= 100000
               /\ Abs(1000 * diferenca - resto * preco) <= 50000
               /\ ret.resumo.subtotal_materiais = ret.materiais.custo_total

\* Several components of positive total area in a material with 12% waste.
C19_VariasPecasComDesperdicio ==
    /\ Orcado
    /\ Len(chamada.componentes) >= 2
    /\ AreaDaChamada > 0
    /\ MaterialOrcado.desperdicio_percentual = 12
    /\ ret.materiais.custo_total > 0

\* The sum of the four category costs of the call before any of them is
\* rounded, in 1e-5 centavo: area x (1 + waste) x price, the accessories,
\* area x labour rate and the cutting of the pieces.
SubtotalSemArredondar ==
    LET materiais ==
            DecMul(DecMul(Dec(AreaDaChamada),
                          Dec(100 + MaterialOrcado.desperdicio_percentual)),
                   Dec(MaterialOrcado.preco_m2))
        mao_obra ==
            DecMul(Dec(AreaDaChamada),
                   Dec(obter_custo_mao_obra(ret.configuracoes.complexidade)))
    IN  DecSoma(DecSoma(materiais,
                        DecMul(Dec(ret.acessorios.custo_total), Dec(100000))),
                DecSoma(DecMul(mao_obra, Dec(100)),
                        DecMul(Dec(SomaCorte(chamada.componentes)),
                               Dec(100))))

\* C20: no amount is rounded before it enters a later sum or product: the
\* reported subtotal, margin and final value are the roundings to the centavo
\* of the values computed from the unrounded category costs.
C20_ArredondaSoNaSaida ==
    Orcado
        => /\ ret.resumo.subtotal_antes_margem
                  = DecRound(SubtotalSemArredondar, 5)
           /\ ret.resumo.valor_margem
                  = DecRound(DecMul(SubtotalSemArredondar,
                                    Dec(ret.configuracoes.margem_lucro)), 7)
           /\ ret.resumo.valor_final
                  = DecRound(DecMul(SubtotalSemArredondar,
                                    Dec(100 + ret.configuracoes.margem_lucro)),
                             7)

(***************************************************************************)
(* Properties of the price lookups                                         *)
(***************************************************************************)
\* C21: a lookup with an unknown key falls back and a known key finds its
\* own entry: an unknown material is priced as mdf_15mm (69.15 a m2, 15 %
\* waste), an unknown accessory tier with the common prices and an unknown
\* complexity at 1.3 x 120.00 = 156.00 a m2.
C21_ChaveDesconhecida ==
    Orcado
        => LET c == ret.configuracoes
           IN  /\ IF c.tipo_material \in DOMAIN PRECOS_MATERIAIS
                  THEN /\ ret.materiais.preco_m2
                            = PRECOS_MATERIAIS[c.tipo_material].preco_m2
                       /\ ret.materiais.desperdicio_percentual
                            = PRECOS_MATERIAIS[c.tipo_material]
                                  .desperdicio_percentual
                  ELSE /\ ret.materiais.preco_m2 = 6915
                       /\ ret.materiais.desperdicio_percentual = 15
               /\ \A i \in DOMAIN ret.acessorios.itens :
                      ret.acessorios.itens[i].preco_unitario
                          = IF c.qualidade_acessorios
                                   \in DOMAIN PRECOS_ACESSORIOS
                            THEN PRECOS_ACESSORIOS[c.qualidade_acessorios][i]
                            ELSE [dobradica |-> 1250, puxador |-> 1580,
                                  corredicica |-> 4500,
                                  suporte_prateleira |-> 850][i]
               /\ ret.mao_obra.custo_m2
                      = IF c.complexidade
                               \in DOMAIN CUSTOS_MAO_OBRA
                                              .multiplicadores_complexidade
                        THEN 1200 * CUSTOS_MAO_OBRA
                                        .multiplicadores_complexidade[
                                            c.complexidade]
                        ELSE 15600
               /\ \A i \in 1..Len(ret.custos_individuais) :
                      LET d == ret.custos_individuais[i].detalhamento
                      IN  /\ d.material.preco_m2 = ret.materiais.preco_m2
                          /\ d.mao_obra.custo_m2 = ret.mao_obra.custo_m2

\* A drawer and a door budgeted with a material, a tier and a complexity
\* the tables do not have.
C21_TresChavesDesconhecidas ==
    /\ Orcado
    /\ ret.configuracoes.tipo_material = "compensado_18mm"
    /\ ret.configuracoes.qualidade_acessorios = "luxo"
    /\ ret.configuracoes.complexidade = "artesanal"
    /\ Conta({"Gaveta"}) = 1 /\ Conta({"Porta"}) = 1
    /\ ret.materiais.preco_m2 = 6915
    /\ ret.acessorios.itens["corredicica"].preco_unitario = 4500
    /\ ret.mao_obra.custo_m2 = 15600

MalhaExtraida ==
    /\ Retornou("extrair_geometrias")
    /\ chamada.mesh.classe = "Trimesh"
    /\ chamada.mesh.bounds # SemBounds

\* The type and the extents of a component.
Medidas(comp) ==
    <<comp.tipo, comp.largura_m, comp.altura_m, comp.profundidade_m>>

\* C23: for a single mesh whose largest raw extent is above 100, the
\* synthetic components have the types and extents the simulator gives for
\* the bounding box normalized to metres.
C23_SimuladosEmMetros ==
    (/\ MalhaExtraida
     /\ ret # << >>
     /\ LET d == Dimensoes(chamada.mesh.bounds)
        IN  Max2(d[1], Max2(d[2], d[3])) > 100 * 10000)
        => LET em_metros ==
                   simular_componentes(
                       <<Origem, Normalizar(Dimensoes(chamada.mesh.bounds))>>)
           IN  /\ Len(ret) = 1 + Len(em_metros)
               /\ \A i \in 1..Len(em_metros) :
                      Medidas(ret[i + 1]) = Medidas(em_metros[i])

\* A sub-geometry of a scene that becomes a component.
Sobrevive(g) == g.bounds # SemBounds /\ analisar_geometria(g, g.nome) # None

\* The names of a list of components or geometries, in order.
NomesDe(lista) == [i \in 1..Len(lista) |-> lista[i].nome]

\* A component the simulator made: it has an id before the ids are given.
Simulado(comp) == "id" \in DOMAIN comp

\* C24: a single mesh gives the main structure first and then the
\* simulator's components in the order it emits them; a scene gives one
\* component for each sub-geometry that survives, in the order of the
\* scene, and none from the simulator.
C24_PrincipalDepoisSimulados ==
    /\ MalhaExtraida /\ ret # << >>
           => /\ ret[1].nome = estrutura_principal
              /\ ~Simulado(ret[1])
              /\ Tail(ret) = simular_componentes(chamada.mesh.bounds)
              /\ \A i \in 2..Len(ret) : Simulado(ret[i])
    /\ Retornou("extrair_geometrias") /\ chamada.mesh.classe = "Scene"
           => /\ NomesDe(ret)
                     = NomesDe(SelectSeq(chamada.mesh.geometry,
                                         LAMBDA g : Sobrevive(g)))
              /\ \A i \in 1..Len(ret) : ~Simulado(ret[i])

\* A tall single mesh: the main structure, a door and at least two shelves.
C24_ArmarioComPortaEPrateleiras ==
    /\ MalhaExtraida
    /\ Len(ret) >= 4
    /\ ret[1].nome = estrutura_principal
    /\ ret[2].tipo = "Porta"
    /\ ret[3].tipo = "Prateleira"

(***************************************************************************)
(* Properties of the analysis result                                       *)
(***************************************************************************)
\* C25: a successful analysis with N components numbers them 1..N in list
\* order, the simulated ones too, reports N as componentes_detectados and
\* the sums of the components' area_m2 and volume_m3 as the totals.
C25_IdsETotais ==
    (Retornou("analisar_arquivo") /\ ret.sucesso)
        => LET n == Len(ret.componentes)
           IN  /\ n >= 1
               /\ \A i \in 1..n : ret.componentes[i].id = i
               /\ ret.componentes_detectados = n
               /\ ret.area_total_m2
                      = SomaDe([i \in 1..n |-> ret.componentes[i].area_m2],
                               1..n)
               /\ ret.volume_total_m3
                      = SomaDe([i \in 1..n |-> ret.componentes[i].volume_m3],
                               1..n)

\* The analysis of a tall single mesh: the door, which the simulator
\* numbered 1, is component 2 and the last shelf is component N.
C25_PortaRenumerada ==
    /\ Retornou("analisar_arquivo") /\ ret.sucesso
    /\ Len(ret.componentes) >= 4
    /\ ret.componentes[2].tipo = "Porta"
    /\ ret.componentes[2].id = 2
    /\ simular_componentes(ret.componentes[2].bounds)[1].id = 1
    /\ ret.area_total_m2 > ret.componentes[1].area_m2

(***************************************************************************)
(* Properties of the per-component breakdown                               *)
(***************************************************************************)
\* C26: for a list of exactly one component the breakdown of the component
\* and the summary agree in every amount: material, accessories, labour,
\* cutting, subtotal, margin and final value.
C26_UmComponente ==
    (Orcado /\ Len(chamada.componentes) = 1)
        => LET individual == ret.custos_individuais[1]
           IN  /\ Len(ret.custos_individuais) = 1
               /\ individual.custo_material = ret.resumo.subtotal_materiais
               /\ individual.custo_acessorios = ret.resumo.subtotal_acessorios
               /\ individual.custo_mao_obra = ret.resumo.subtotal_mao_obra
               /\ individual.custo_corte = ret.resumo.subtotal_corte
               /\ individual.subtotal = ret.resumo.subtotal_antes_margem
               /\ individual.valor_margem = ret.resumo.valor_margem
               /\ individual.custo_total = ret.resumo.valor_final

(***************************************************************************)
(* Properties of names with several keywords                               *)
(***************************************************************************)
\* The order of the keyword table: cabinet, drawer, door, shelf, countertop,
\* panel.
OrdemDaTabela ==
    [armario |-> 1, gaveta |-> 2, porta |-> 3, prateleira |-> 4,
     bancada |-> 5, painel |-> 6]

\* C27: a name with keywords of more than one type is given the type that
\* comes first in the table, wherever the keywords stand in the name.
C27_PrimeiraEntradaDaTabela ==
    (Retornou("classificar_componente") /\ Cardinality(TiposPeloNome) > 1)
        => \E t \in TiposPeloNome :
              /\ \A u \in TiposPeloNome : OrdemDaTabela[t] <= OrdemDaTabela[u]
              /\ ret = [tipo |-> NomesAmigaveis[t], confianca |-> 900]

\* "lateral_gaveta": the panel keyword stands first in the name and the
\* drawer entry first in the table.
C27_GavetaAntesDePainel ==
    /\ Retornou("classificar_componente")
    /\ chamada.nome = NomeGavetaLateral
    /\ TiposPeloNome = {"gaveta", "painel"}
    /\ ret.tipo = "Gaveta"

(***************************************************************************)
(* Properties of the accessory and cutting rules together                  *)
(***************************************************************************)
\* The type names a returned call of the classifier or of the simulator
\* holds.
TiposDoRetorno ==
    IF Retornou("classificar_componente") THEN {ret.tipo}
    ELSE IF Retornou("simular_componentes")
    THEN { ret[i].tipo : i \in 1..Len(ret) }
    ELSE {}

\* The type names the entries of the keyword table map to.
TiposDaTabela ==
    { mapear_tipo(tipos_componentes[i].tipo) : i \in 1..Len(tipos_componentes) }

\* A piece of 1 m x 1 m of the given type.
PecaDoTipo(tipo) == [tipo |-> tipo, largura_m |-> 1000, altura_m |-> 1000]

\* What the cutting rules charge the piece above a piece of no special type.
ExtrasDeCorte(tipo) ==
    CorteDoComponente(PecaDoTipo(tipo))
    - CorteDoComponente(PecaDoTipo("Componente"))

\* C28: for every type name the classifier or the simulator emits, and for
\* every type name an entry of the keyword table maps to, a piece
\* that is charged hinges and a handle is charged the 4 hinge bores, a piece
\* that is charged shelf supports is charged the rebate, and a piece that is
\* charged neither is charged no extra cut; a slide pair goes to a piece
\* with hinges only.
C28_AcessoriosECorteConcordam ==
    TiposDoRetorno # {}
        => \A t \in TiposDoRetorno \cup TiposDaTabela :
              LET ferragens ==
                      QuantidadeDoComponente(PecaDoTipo(t), "dobradica") > 0
                  suportes ==
                      QuantidadeDoComponente(PecaDoTipo(t),
                                             "suporte_prateleira") > 0
              IN  /\ (QuantidadeDoComponente(PecaDoTipo(t), "puxador") > 0)
                         <=> ferragens
                  /\ QuantidadeDoComponente(PecaDoTipo(t), "corredicica") > 0
                         => ferragens
                  /\ ExtrasDeCorte(t)
                         = (IF ferragens THEN 4 * 150000 ELSE 0)
                           + (IF suportes THEN 1000 * 350 ELSE 0)

\* A drawer by its dimensions: hinges, a handle, a slide pair and bores.
C28_GavetaPelasMedidas ==
    /\ Retornou("classificar_componente")
    /\ ret = [tipo |-> "Gaveta", confianca |-> 700]
    /\ QuantidadeDoComponente(PecaDoTipo(ret.tipo), "dobradica") = 2
    /\ ExtrasDeCorte(ret.tipo) = 600000

(***************************************************************************)
(* Properties of the sessions of one user                                  *)
(***************************************************************************)
\* C29: for a user on a plan with a monthly limit, the stored counter
\* projetos_mes_atual never exceeds the limit, whatever the order of the
\* steps of the user's sessions.
C29_ContadorDentroDoLimite ==
    (fase = "simultaneas" /\ chamada.op = "mostrar_aplicacao_principal")
        => usuario.projetos_mes_atual
              <= planos[usuario.plano].limite_projetos_mes

(***************************************************************************)
(* Properties of the login                                                 *)
(***************************************************************************)
\* C30: the projetos_mes_atual of the user record a successful
\* autenticar_usuario returns is the counter the row holds when the call
\* returns, the first login of a new calendar month included.
C30_ContadorDevolvidoEOGuardado ==
    (Retornou("autenticar_usuario") /\ ret # None)
        => ret.projetos_mes_atual = usuario.projetos_mes_atual

====
